---------------------------- MODULE Spec2Model ----------------------------
(***************************************************************************)
(* The build / rebuild coordination layer of the PureScript language       *)
(* server: the streaming build coordinator (build.rs), the build command   *)
(* task (commands/build.rs) and the session handlers (server.rs).          *)
(***************************************************************************)
EXTENDS Naturals, Integers, Sequences, FiniteSets, TLC

(***************************************************************************)
(* Bounds of the model.                                                    *)
(***************************************************************************)
\* Lines the build subprocess may write in one run (both streams together).
MaxLines == 3
\* Capacity of the progress channel.  build.rs:75 creates it with capacity
\* 100; the model keeps the channel bounded and scales the capacity, so that
\* a full channel is reached within MaxLines lines.
ProgressCapacity == 1

(***************************************************************************)
(* Option / Result values.                                                 *)
(***************************************************************************)
None == [kind |-> "None"]
Some(x) == [kind |-> "Some", val |-> x]
Ok(x) == [kind |-> "Ok", val |-> x]
Err(m) == [kind |-> "Err", msg |-> m]

Range(s) == {s[i] : i \in 1..Len(s)}

(***************************************************************************)
(* File paths and diagnostics as the tools report them.                    *)
(***************************************************************************)
\* A path is its directory segments, the file's stem and its extension.
Path(abs, dirs, stem, ext) == [abs |-> abs, dirs |-> dirs, stem |-> stem, ext |-> ext]

WorkspaceRoot == Path(TRUE, <<"ws">>, "", "")
MainPurs == Path(FALSE, <<"src">>, "Main", "purs")
DepPurs == Path(FALSE, <<".spago", "prelude">>, "Prelude", "purs")
ForeignJs == Path(FALSE, <<"src">>, "Main", "js")

\* ErrorPosition (ide_server/mod.rs:57-66), as the compiler reports it.
ErrorPosition(sl, sc, el, ec) ==
    [start_line |-> sl, start_column |-> sc, end_line |-> el, end_column |-> ec]

\* lsp_types::Position and Range, 0-based.
Position(line, character) == [line |-> line, character |-> character]
LspRange(start, end) == [start |-> start, end |-> end]

\* The subtraction without the saturation.
C23_PlainSub(x, y) == x - y

\* u32::saturating_sub
saturating_sub(x, y) == IF x > y THEN x - y ELSE 0

\* diagnostics.rs:8-17, code_actions.rs:37-46, 132-141, 178-187: the 0-based
\* range of a position.
error_range(position) ==
    LspRange(Position(saturating_sub(position.start_line, 1),
                      saturating_sub(position.start_column, 1)),
             Position(saturating_sub(position.end_line, 1),
                      saturating_sub(position.end_column, 1)))

\* RebuildError (ide_server/mod.rs): the fields the coordination layer reads.
RebuildError(code, file) ==
    [error_code |-> code, filename |-> file, position |-> ErrorPosition(3, 1, 3, 8)]

ErrMain == RebuildError("UnknownName", MainPurs)
ErrDep == RebuildError("TypesDoNotUnify", DepPurs)
ErrJs == RebuildError("ErrorParsingFFIModule", ForeignJs)
WarnMain == RebuildError("UnusedImport", MainPurs)
WarnDep == RebuildError("ShadowedName", DepPurs)

(***************************************************************************)
(* Lines of subprocess output.                                             *)
(***************************************************************************)
\* A line of text is the sequence of its characters.
TextLine(text) == [kind |-> "text", text |-> text]
ProgressLine ==
    TextLine(<<"[", "1", " ", "o", "f", " ", "2", "]", " ">>
             \o <<"C", "o", "m", "p", "i", "l", "i", "n", "g", " ", "M", "a", "i", "n">>)
JsonLine == [kind |-> "json", errors |-> Some(<<ErrMain>>), warnings |-> Some(<<WarnDep>>)]
\* A line whose bytes are not valid UTF-8: next_line() returns Err for it.
InvalidLine == [kind |-> "invalid"]
OutputLines == {ProgressLine, JsonLine, InvalidLine}

Streams == {"stdout", "stderr"}

DigitChars == <<"0", "1", "2", "3", "4", "5", "6", "7", "8", "9">>
IsDigit(c) == \E i \in 1..10 : DigitChars[i] = c
DigitValue(c) == (CHOOSE i \in 1..10 : DigitChars[i] = c) - 1

RECURSIVE trim_start(_)
\* str::trim_start, str::trim_end and str::trim, for the blank.
trim_start(text) ==
    IF Len(text) > 0 /\ Head(text) = " " THEN trim_start(Tail(text)) ELSE text
RECURSIVE trim_end(_)
trim_end(text) ==
    IF Len(text) > 0 /\ text[Len(text)] = " "
    THEN trim_end(SubSeq(text, 1, Len(text) - 1)) ELSE text
\* The line is matched as it is read.
C24_Untrimmed(text) == text

trim(text) == trim_end(trim_start(text))

\* The literal is in the text at the position.
LiteralAt(text, pos, literal) ==
    /\ pos + Len(literal) - 1 <= Len(text)
    /\ SubSeq(text, pos, pos + Len(literal) - 1) = literal

RECURSIVE DigitsEnd(_, _)
\* \d+ from the position on: the position after the longest run of digits.
DigitsEnd(text, pos) ==
    IF pos <= Len(text) /\ IsDigit(text[pos]) THEN DigitsEnd(text, pos + 1) ELSE pos

\* The pattern \[(\d+) of (\d+)\] (?:Compiling|Skipping) (.+) matched from
\* position s: its three groups, or None.
CapturesAt(text, s) ==
    LET a == s + 1
        b == DigitsEnd(text, a)
        c == b + 4
        e == DigitsEnd(text, c)
        f == e + 2
        g == IF LiteralAt(text, f, <<"C", "o", "m", "p", "i", "l", "i", "n", "g">>) THEN f + 9
             ELSE IF LiteralAt(text, f, <<"S", "k", "i", "p", "p", "i", "n", "g">>) THEN f + 8
             ELSE 0
    IN IF /\ LiteralAt(text, s, <<"[">>)
          /\ b > a
          /\ LiteralAt(text, b, <<" ", "o", "f", " ">>)
          /\ e > c
          /\ LiteralAt(text, e, <<"]", " ">>)
          /\ g > 0
          /\ LiteralAt(text, g, <<" ">>)
          /\ g + 1 <= Len(text)
       THEN Some(<<SubSeq(text, a, b - 1), SubSeq(text, c, e - 1),
                   SubSeq(text, g + 1, Len(text))>>)
       ELSE None

\* Regex::captures: the leftmost match anywhere in the text (build.rs:248-250).
captures(text) ==
    LET starts == {s \in 1..Len(text) : CapturesAt(text, s) # None} IN
    IF starts = {} THEN None
    ELSE CapturesAt(text, CHOOSE s \in starts : \A u \in starts : s <= u)

\* u32::MAX, 4294967295, digit by digit.
U32MaxDigits == <<4, 2, 9, 4, 9, 6, 7, 2, 9, 5>>

RECURSIVE strip_zeros(_)
strip_zeros(digits) ==
    IF Len(digits) > 1 /\ Head(digits) = "0" THEN strip_zeros(Tail(digits)) ELSE digits

RECURSIVE to_number(_)
to_number(digits) ==
    IF Len(digits) = 0 THEN 0
    ELSE 10 * to_number(SubSeq(digits, 1, Len(digits) - 1)) + DigitValue(digits[Len(digits)])

\* str::parse::<u32> of a run of digits (build.rs:253-254): Err when the
\* number is above u32::MAX.
parse_u32(digits) ==
    LET d == strip_zeros(digits)
        above ==
            \/ Len(d) > 10
            \/ /\ Len(d) = 10
               /\ \E i \in 1..10 :
                     /\ DigitValue(d[i]) > U32MaxDigits[i]
                     /\ \A j \in 1..(i - 1) : DigitValue(d[j]) = U32MaxDigits[j]
    IN IF above THEN Err("number too large to fit in target type")
       ELSE Ok(to_number(d))

\* parse_single_progress_line (build.rs:245-261): Some((current, total,
\* module_name)) when the trimmed line holds the pattern and both numbers fit
\* u32, None otherwise.  A line given by what it decodes to (a JSON line) or
\* by its being undecodable holds no progress pattern.
parse_single_progress_line(line) ==
    IF line.kind # "text" THEN None
    ELSE LET groups == captures(trim(line.text)) IN
         IF groups = None THEN None
         ELSE LET current == parse_u32(groups.val[1])
                  total == parse_u32(groups.val[2])
              IN IF current.kind = "Ok" /\ total.kind = "Ok"
                 THEN Some([current |-> current.val, total |-> total.val,
                            module_name |-> groups.val[3]])
                 ELSE None

\* build.rs:117: (current as f64 / total as f64 * 100.0) as u32.  Dividing by
\* 0.0 gives infinity, or NaN for 0.0 / 0.0, and the cast saturates: infinity
\* becomes u32::MAX (given digit by digit) and NaN becomes 0.  For the totals
\* met here the product truncates to the whole part of current * 100 / total.
percentage_of(current, total) ==
    IF total = 0 THEN (IF current = 0 THEN 0 ELSE U32MaxDigits)
    ELSE (current * 100) \div total

\* The event a reader sends for a progress line (build.rs:116-125).
progress_event(p) ==
    [current |-> p.current, total |-> p.total, module_name |-> p.module_name,
     percentage |-> percentage_of(p.current, p.total)]

\* commands/build.rs:93-106: the Report sent to the editor for an event.
progress_report(event) ==
    [message |-> <<event.current, event.total, event.module_name>>,
     percentage |-> Some(event.percentage)]

RECURSIVE push_all(_, _)
\* entry(filename).or_insert_with(Vec::new).push(e) for each e of es, in order.
push_all(map, es) ==
    IF es = << >> THEN map
    ELSE LET e == Head(es)
             f == e.filename
             m2 == IF f \in DOMAIN map
                   THEN [map EXCEPT ![f] = Append(@, e)]
                   ELSE [k \in DOMAIN map \cup {f} |-> IF k = f THEN <<e>> ELSE map[k]]
         IN push_all(m2, Tail(es))

EmptyMap == [k \in {} |-> << >>]

\* build.rs:207-208: the trimmed line starts with '{' and holds "errors" or
\* "warnings" in quotes.
cheap_check(text) ==
    LET trimmed == trim(text) IN
    /\ LiteralAt(trimmed, 1, <<"{">>)
    /\ \E pos \in 1..Len(trimmed) :
          \/ LiteralAt(trimmed, pos, <<"\"", "e", "r", "r", "o", "r", "s", "\"">>)
          \/ LiteralAt(trimmed, pos, <<"\"", "w", "a", "r", "n", "i", "n", "g", "s", "\"">>)

RECURSIVE C26_StopAtMalformed(_, _, _)
\* The parse ends at the first line that passes the check and does not decode.
C26_StopAtMalformed(ls, errors, warnings) ==
    IF ls = << >> THEN [errors |-> errors, warnings |-> warnings]
    ELSE LET l == Head(ls)
         IN IF l.kind = "json"
            THEN C26_StopAtMalformed(Tail(ls),
                     IF l.errors.kind = "Some" THEN push_all(errors, l.errors.val) ELSE errors,
                     IF l.warnings.kind = "Some" THEN push_all(warnings, l.warnings.val) ELSE warnings)
            ELSE IF l.kind = "text" /\ cheap_check(l.text)
            THEN [errors |-> errors, warnings |-> warnings]
            ELSE C26_StopAtMalformed(Tail(ls), errors, warnings)

RECURSIVE parse_lines(_, _, _)
\* The loop of parse_build_output over the lines, in order: a line that
\* decodes as CompilerOutput adds its errors and its warnings to the maps; a
\* line of text passes the check or not, does not decode, and is skipped.
parse_lines(ls, errors, warnings) ==
    IF ls = << >> THEN [errors |-> errors, warnings |-> warnings]
    ELSE LET l == Head(ls)
         IN IF l.kind = "json"
            THEN parse_lines(Tail(ls),
                     IF l.errors.kind = "Some" THEN push_all(errors, l.errors.val) ELSE errors,
                     IF l.warnings.kind = "Some" THEN push_all(warnings, l.warnings.val) ELSE warnings)
            ELSE parse_lines(Tail(ls), errors, warnings)

\* parse_build_output: always Ok((errors, warnings)).
parse_build_output(stdout_output) == parse_lines(stdout_output, EmptyMap, EmptyMap)

\* BuildResult (build.rs:14).
BuildResult(success, output, errors, warnings) ==
    [success |-> success, output |-> output, errors |-> errors, warnings |-> warnings]

(***************************************************************************)
(* State of one run of run_ragu_build_streaming.                           *)
(***************************************************************************)
VARIABLES
    args,           \* the CLI arguments of the run (run_build / run_quick_build)
    coord,          \* where the coordinator task (build.rs:79) stands
    child,          \* the subprocess: "unspawned", "running", "exited_ok", "exited_fail"
    written,        \* per stream, every line the subprocess has written
    pipe,           \* per stream, the lines written and not yet read
    reader,         \* per stream, where the reader task stands
    lines,          \* per stream, the reader's accumulated `lines`
    progress_chan,  \* the bounded mpsc channel of progress events
    result_chan     \* the values sent on the oneshot result channel

buildVars == <<args, coord, child, written, pipe, reader, lines, progress_chan, result_chan>>

(***************************************************************************)
(* State of the session: ServerState behind its Mutex (types.rs,           *)
(* server.rs), the handler tasks, and what the editor has been sent.       *)
(***************************************************************************)
VARIABLES
    workspace_root,        \* ServerState.workspace_root
    config,                \* ServerState.config
    ide_server,            \* ServerState.ide_server: its port and process
    document_contents,     \* ServerState.document_contents
    document_errors,       \* ServerState.document_errors
    last_build_errors,     \* ServerState.last_build_errors
    active_rebuild_token,  \* ServerState.active_rebuild_token
    guard,                 \* the task holding the state Mutex, 0 when free
    clock,                 \* the time the progress tokens are made of
    calls,                 \* handler invocations so far
    task,                  \* per task slot, the handler or build task running in it
    published,             \* editor: per URI, the diagnostics last published
    open_progress,         \* editor: tokens with Begin received and no End yet
    log_messages           \* editor: the log message received last

sessVars == <<workspace_root, config, ide_server, document_contents, document_errors,
              last_build_errors, active_rebuild_token, guard, clock, calls, task,
              published, open_progress, log_messages>>

(***************************************************************************)
(* The analysis-server subprocesses the session has started.               *)
(***************************************************************************)
VARIABLES
    processes   \* per subprocess started (in order), "running" or "dead"

serverVars == <<processes>>

(***************************************************************************)
(* A code-action request being answered (code_actions.rs).                 *)
(***************************************************************************)
VARIABLES
    fix   \* the request's params and errors, and what has been computed from them

fixVars == <<fix>>

(***************************************************************************)
(* One application of a function that reads no state: the function, its    *)
(* argument, and its result once it has returned.                          *)
(***************************************************************************)
VARIABLES
    call

callVars == <<call>>

(***************************************************************************)
(* One connection to the analysis server (ide_server/commands.rs): where   *)
(* send_command stands, and the two directions of the TCP stream.          *)
(***************************************************************************)
VARIABLES
    wire

wireVars == <<wire>>

vars == <<buildVars, sessVars, serverVars, fixVars, callVars, wireVars>>

\* What the session's handlers leave alone unless they say otherwise, and
\* what a build run leaves alone.
outsideSession == <<buildVars, serverVars, fixVars, callVars, wireVars>>
outsideBuild == <<sessVars, serverVars, fixVars, callVars, wireVars>>
outsideServer == <<buildVars, fixVars, callVars, wireVars>>
outsideFix == <<buildVars, sessVars, serverVars, callVars, wireVars>>
outsideCall == <<buildVars, sessVars, serverVars, fixVars, wireVars>>
outsideWire == <<buildVars, sessVars, serverVars, fixVars, callVars>>

\* No function is being applied.
NoCall == [fn |-> "none", arg |-> None, ret |-> None]

\* send_command's position, the bytes it has written, whether its write side
\* is open, whether the peer has closed, the bytes to read, and its result.
Connection(pc, command, server, answer) ==
    [pc |-> pc, command |-> command, server |-> server, answer |-> answer,
     sent |-> << >>, write_open |-> FALSE, peer_closed |-> FALSE, ret |-> None]

\* No command is being sent.
NoConnection == Connection("none", None, "none", None)

\* No code-action request is being answered.
NoRequest == [params |-> None, errors |-> << >>, actions |-> None,
              apply_all |-> None, response |-> None]

(***************************************************************************)
(* Bounds and inputs of the session.                                       *)
(***************************************************************************)
\* Handler invocations (requests and notifications) in one run.
MaxCalls == 2
\* The slots in which handlers and build tasks run concurrently.
Tasks == {1, 2}

\* HashMap operations.
MapInsert(m, k, v) == [x \in DOMAIN m \cup {k} |-> IF x = k THEN v ELSE m[x]]
MapRemove(m, k) == [x \in DOMAIN m \ {k} |-> m[x]]
MapGet(m, k) == IF k \in DOMAIN m THEN Some(m[k]) ELSE None

\* Path::is_absolute / Path::join / Url::from_file_path (build.rs:264-287).
file_path_to_uri(file_path, root) ==
    IF file_path.abs THEN Some(file_path)
    ELSE Some(Path(TRUE, root.dirs \o file_path.dirs, file_path.stem, file_path.ext))

\* uri.path().ends_with(".purs") (commands/build.rs:162)
EndsWithPurs(uri) == uri.ext = "purs"
\* file_path.contains(".spago") (commands/build.rs:197)
ContainsSpago(file_path) == ".spago" \in Range(file_path.dirs)

MainUri == file_path_to_uri(MainPurs, WorkspaceRoot).val
Uris == {MainUri}

\* Document texts the editor sends; `foreign` is content.contains("foreign import").
PlainText == [text |-> "module Main where", foreign |-> FALSE]
ForeignText == [text |-> "foreign import f :: Int", foreign |-> TRUE]
Contents == {PlainText, ForeignText}

\* The list without its last code.
C22_ShortWarningCodes ==
    {"MissingTypeDeclaration", "ImplicitImport", "DeprecatedQualifiedSyntax",
     "RedundantUnqualifiedImport", "RedundantEmptyHidingImport", "DuplicateImport",
     "UnusedImport", "UnusedExplicitImport", "ShadowedName", "UnusedTypeVar"}

\* diagnostics.rs:19-35: the codes reported as warnings.
WarningCodes ==
    {"MissingTypeDeclaration", "ImplicitImport", "DeprecatedQualifiedSyntax",
     "RedundantUnqualifiedImport", "RedundantEmptyHidingImport", "DuplicateImport",
     "UnusedImport", "UnusedExplicitImport", "ShadowedName", "UnusedTypeVar",
     "Deprecated"}

\* rebuild_error_to_diagnostic (diagnostics.rs:5-48)
rebuild_error_to_diagnostic(error) ==
    Some([range |-> error_range(error.position),
          code |-> error.error_code,
          severity |-> IF error.error_code \in WarningCodes THEN "WARNING" ELSE "ERROR",
          source |-> "purescript"])

RECURSIVE convert_rebuild_errors(_)
\* convert_rebuild_errors (diagnostics.rs:51-56): filter_map over the errors.
convert_rebuild_errors(errors) ==
    IF errors = << >> THEN << >>
    ELSE LET d == rebuild_error_to_diagnostic(Head(errors))
         IN (IF d.kind = "Some" THEN <<d.val>> ELSE << >>)
            \o convert_rebuild_errors(Tail(errors))

\* A serde_json::Value, by the cases the client tells apart: an array with its
\* items, or a value that is no array.
JsonArray(items) == [json |-> "array", items |-> items]
JsonText == [json |-> "string", items |-> << >>]

\* The JSON object of a diagnostic; a key the object lacks is None.
JsonError(error_code, filename, position) ==
    [error_code |-> error_code, filename |-> filename, position |-> position]
ToJson(error) ==
    JsonError(Some(error.error_code), Some(error.filename), Some(error.position))

\* JSON objects of diagnostics: two complete ones, one without a filename,
\* one without an errorCode.
JsonErrors ==
    {ToJson(ErrMain), ToJson(WarnMain),
     JsonError(Some("UnknownName"), None, Some(ErrorPosition(3, 1, 3, 8))),
     JsonError(None, Some(MainPurs), Some(ErrorPosition(3, 1, 3, 8)))}

\* default_string (ide_server/mod.rs:52-54): the file name "unknown".
default_string == Path(FALSE, << >>, "unknown", "")

\* Deserialize for RebuildError (ide_server/mod.rs:35-50): errorCode and
\* position are required, filename defaults to default_string.
deserialize_error(object) ==
    IF object.error_code = None THEN Err("missing field errorCode")
    ELSE IF object.position = None THEN Err("missing field position")
    ELSE Ok([error_code |-> object.error_code.val,
             filename |-> IF object.filename = None THEN default_string
                          ELSE object.filename.val,
             position |-> object.position.val])

RECURSIVE from_value(_)
\* serde_json::from_value::<Vec<RebuildError>> (ide_server/commands.rs:55-56)
from_value(items) ==
    IF items = << >> THEN Ok(<< >>)
    ELSE LET first == deserialize_error(Head(items))
             rest == from_value(Tail(items))
         IN IF first.kind = "Err" THEN first
            ELSE IF rest.kind = "Err" THEN rest
            ELSE Ok(<<first.val>> \o rest.val)

\* Value::as_array
as_array(value) == IF value.json = "array" THEN Some(value.items) ELSE None

\* One exchange with the analysis server: the step of send_command that
\* fails, if any, and the `result` member of the response it reads.
Exchange(failure, result) == [failure |-> failure, result |-> result]

\* send_command (ide_server/commands.rs:8-38): every failing step leaves
\* through `?`; otherwise the response's `result` is handed on.
send_command(exchange) ==
    IF exchange.failure # None THEN Err(exchange.failure.val)
    ELSE Ok(exchange.result)

\* What the analysis server answers to a rebuild request: no answer (the
\* connection or the decoding fails), or a response with its `result`.
IdeResponses ==
    {send_command(Exchange(Some("connection refused"), None)),
     send_command(Exchange(None, None)),
     send_command(Exchange(None, Some(JsonArray(<< >>)))),
     send_command(Exchange(None, Some(JsonArray(<<ToJson(ErrMain)>>)))),
     send_command(Exchange(None, Some(JsonArray(<<ToJson(WarnMain)>>))))}

\* The client that reports every outcome as a rebuild without diagnostics.
C29_AlwaysClean(response) == Ok([errors |-> None])

\* rebuild_file (ide_server/commands.rs:41-72): Some(errors) for a non-empty
\* result array, None for an empty or absent one or for a result that is no
\* array; the transport error and the decoding error are passed on by `?`.
rebuild_file(response) ==
    IF response.kind = "Err" THEN response
    ELSE IF response.val = None THEN Ok([errors |-> None])
    ELSE LET errors == as_array(response.val.val) IN
         IF errors # None /\ errors.val # << >>
         THEN LET rebuild_errors == from_value(errors.val) IN
              IF rebuild_errors.kind = "Err" THEN rebuild_errors
              ELSE Ok([errors |-> Some(rebuild_errors.val)])
         ELSE Ok([errors |-> None])

\* rebuild_file_with_content (called at server.rs:180): the rebuild request
\* with the optional in-memory content added to its params; the response is
\* handled as in rebuild_file.
rebuild_file_with_content(response, content) == rebuild_file(response)

\* The build outputs the subprocess produces in the session.
OutputMixed ==
    <<[kind |-> "json", errors |-> Some(<<ErrMain, ErrDep>>),
       warnings |-> Some(<<WarnDep, WarnMain>>)]>>
OutputForeign ==
    <<[kind |-> "json", errors |-> Some(<<ErrJs>>), warnings |-> None]>>
OutputClean == <<ProgressLine>>
OutputWarnings ==
    <<[kind |-> "json", errors |-> None, warnings |-> Some(<<WarnMain>>)]>>

\* The result of a run whose subprocess wrote `out` to its standard output.
BuildOutcome(success, out) ==
    Ok(BuildResult(success, out, parse_build_output(out).errors,
                   parse_build_output(out).warnings))

\* What arrives on the result channel of a build.
BuildOutcomes ==
    {BuildOutcome(FALSE, OutputMixed), BuildOutcome(FALSE, OutputForeign),
     BuildOutcome(TRUE, OutputClean), Err("Failed to spawn ragu command")}

\* A task: the handler (or spawned build task) it runs, where it stands, and
\* its local variables.
Task(kind, pc, uri, content) ==
    [kind |-> kind, pc |-> pc, uri |-> uri, content |-> content, token |-> None,
     prev |-> None, result |-> None, todo |-> {}, cur |-> None]

Idle == Task("idle", "idle", None, None)

\* Backend::new (server.rs:25-29): ServerState::default().
SessInit ==
    /\ workspace_root = None
    /\ config = None
    /\ ide_server = [port |-> None, process |-> None]
    /\ document_contents = EmptyMap
    /\ document_errors = EmptyMap
    /\ last_build_errors = EmptyMap
    /\ active_rebuild_token = None
    /\ guard = 0
    /\ clock = 0
    /\ calls = 0
    /\ task = [t \in Tasks |-> Idle]
    /\ published = EmptyMap
    /\ open_progress = {}
    /\ log_messages = None
    /\ processes = << >>
    /\ fix = NoRequest
    /\ call = NoCall
    /\ wire = NoConnection

FullArgs == <<"build", "--", "--json-errors">>
QuickArgs == <<"build", "-q", "--", "--json-errors">>

\* run_build
run_build == FullArgs
\* run_quick_build
run_quick_build == QuickArgs

BuildInit ==
    /\ args \in {run_build, run_quick_build}
    /\ coord = "start"
    /\ child = "unspawned"
    /\ written = [s \in Streams |-> << >>]
    /\ pipe = [s \in Streams |-> << >>]
    /\ reader = [s \in Streams |-> "unspawned"]
    /\ lines = [s \in Streams |-> << >>]
    /\ progress_chan = << >>
    /\ result_chan = << >>
    /\ SessInit

ChildExited == child \in {"exited_ok", "exited_fail"}

\* The value `let _ = result_tx.send(result)` puts on the oneshot channel.
SendResult(r) == result_chan' = Append(result_chan, r)

\* build.rs:82-155: spawn the subprocess, take its two streams and spawn the
\* two reader tasks (no suspension point in between); any `?` failure ends
\* the async block and its Err is sent at once (build.rs:187).
CoordStart ==
    /\ coord = "start"
    /\ \/ /\ coord' = "done"
          /\ SendResult(Err("Failed to spawn ragu command"))
          /\ UNCHANGED <<child, reader>>
       \/ /\ \E m \in {"Failed to capture stdout", "Failed to capture stderr"} :
                SendResult(Err(m))
          /\ coord' = "done"
          /\ child' = "running"
          /\ UNCHANGED reader
       \/ /\ coord' = "join_stdout"
          /\ child' = "running"
          /\ reader' = [s \in Streams |-> "read"]
          /\ UNCHANGED result_chan
    /\ UNCHANGED <<args, written, pipe, lines, progress_chan>>
    /\ UNCHANGED outsideBuild

WrittenCount == Len(written["stdout"]) + Len(written["stderr"])

\* The subprocess writes one line to one of its streams.  A stream whose
\* reader has gone (its read end dropped) takes no more lines.
ChildWrite(s, l) ==
    /\ child = "running"
    /\ WrittenCount < MaxLines
    /\ reader[s] \in {"unspawned", "read", "send"}
    /\ written' = [written EXCEPT ![s] = Append(@, l)]
    /\ pipe' = [pipe EXCEPT ![s] = Append(@, l)]
    /\ UNCHANGED <<args, coord, child, reader, lines, progress_chan, result_chan>>
    /\ UNCHANGED outsideBuild

\* The subprocess exits, which closes the write ends of both streams.
ChildExit ==
    /\ child = "running"
    /\ child' \in {"exited_ok", "exited_fail"}
    /\ UNCHANGED <<args, coord, written, pipe, reader, lines, progress_chan, result_chan>>
    /\ UNCHANGED outsideBuild

\* build.rs:112-127 (stdout) and 137-152 (stderr): one turn of
\* `while let Ok(Some(line)) = reader.next_line().await`.
ReaderStep(s) ==
    /\ reader[s] = "read"
    /\ IF pipe[s] # << >>
       THEN LET line == Head(pipe[s]) IN
            /\ pipe' = [pipe EXCEPT ![s] = Tail(@)]
            /\ IF line.kind = "invalid"
               THEN \* Err(_): the loop ends, the lines read so far are returned
                    /\ reader' = [reader EXCEPT ![s] = "done"]
                    /\ UNCHANGED lines
               ELSE /\ lines' = [lines EXCEPT ![s] = Append(@, line)]
                    /\ reader' = [reader EXCEPT ![s] =
                           IF parse_single_progress_line(line).kind = "Some"
                           THEN "send" ELSE "read"]
       ELSE \* Ok(None): end of stream, once the write end is closed
            /\ ChildExited
            /\ reader' = [reader EXCEPT ![s] = "done"]
            /\ UNCHANGED <<pipe, lines>>
    /\ UNCHANGED <<args, coord, child, written, progress_chan, result_chan>>
    /\ UNCHANGED outsideBuild

\* build.rs:118-125 / 143-150: `let _ = progress_tx.send(event).await`.
\* The send completes when the channel has room.
ReaderSend(s) ==
    /\ reader[s] = "send"
    /\ Len(progress_chan) < ProgressCapacity
    /\ progress_chan' = Append(progress_chan,
           progress_event(parse_single_progress_line(lines[s][Len(lines[s])]).val))
    /\ reader' = [reader EXCEPT ![s] = "read"]
    /\ UNCHANGED <<args, coord, child, written, pipe, lines, result_chan>>
    /\ UNCHANGED outsideBuild

\* A reader task that panics or is cancelled: its join handle yields Err.
ReaderAbort(s) ==
    /\ reader[s] \in {"read", "send"}
    /\ reader' = [reader EXCEPT ![s] = "aborted"]
    /\ UNCHANGED <<args, coord, child, written, pipe, lines, progress_chan, result_chan>>
    /\ UNCHANGED outsideBuild

\* The join ends the coordinator without a value being sent.
C2_JoinStdout_NoSend ==
    /\ coord = "join_stdout"
    /\ \/ /\ reader["stdout"] = "done"
          /\ coord' = "join_stderr"
       \/ /\ reader["stdout"] = "aborted"
          /\ coord' = "done"
    /\ UNCHANGED <<args, child, written, pipe, reader, lines, progress_chan, result_chan>>
    /\ UNCHANGED outsideBuild

\* build.rs:158-160: stdout_handle.await
JoinStdout ==
    /\ coord = "join_stdout"
    /\ \/ /\ reader["stdout"] = "done"
          /\ coord' = "join_stderr"
          /\ UNCHANGED result_chan
       \/ /\ reader["stdout"] = "aborted"
          /\ coord' = "done"
          /\ SendResult(Err("Failed to join stdout task"))
    /\ UNCHANGED <<args, child, written, pipe, reader, lines, progress_chan>>
    /\ UNCHANGED outsideBuild

\* build.rs:161-163: stderr_handle.await
JoinStderr ==
    /\ coord = "join_stderr"
    /\ \/ /\ reader["stderr"] = "done"
          /\ coord' = "wait"
          /\ UNCHANGED result_chan
       \/ /\ reader["stderr"] = "aborted"
          /\ coord' = "done"
          /\ SendResult(Err("Failed to join stderr task"))
    /\ UNCHANGED <<args, child, written, pipe, reader, lines, progress_chan>>
    /\ UNCHANGED outsideBuild

\* build.rs:166-187: child.wait().await, then parse the joined stdout lines,
\* build the BuildResult and send it.
WaitAndSend ==
    /\ coord = "wait"
    /\ ChildExited
    /\ coord' = "done"
    /\ \/ SendResult(Err("Failed to wait for child"))
       \/ LET parsed == parse_build_output(lines["stdout"]) IN
          SendResult(Ok(BuildResult(child = "exited_ok", lines["stdout"],
                                    parsed.errors, parsed.warnings)))
    /\ UNCHANGED <<args, child, written, pipe, reader, lines, progress_chan>>
    /\ UNCHANGED outsideBuild

\* commands/build.rs:93: the caller's `progress_rx.recv().await`.
ProgressRecv ==
    /\ progress_chan # << >>
    /\ progress_chan' = Tail(progress_chan)
    /\ UNCHANGED <<args, coord, child, written, pipe, reader, lines, result_chan>>
    /\ UNCHANGED outsideBuild

(***************************************************************************)
(* The session: handlers of server.rs.                                     *)
(***************************************************************************)
SetPc(t, pc) == task' = [task EXCEPT ![t].pc = pc]

\* client.log_message(..)
LogMessage(m) == log_messages' = Some(m)

\* A progress token: "rebuild-<ms>" / "build-<ms>".
Token(prefix, at) == [prefix |-> prefix, at |-> at]

\* initialize (server.rs:267-305): stores the workspace root, when the
\* editor names one.  The editor sends it first and once.
initialize ==
    /\ workspace_root = None
    /\ workspace_root' = Some(WorkspaceRoot)
    /\ UNCHANGED <<config, ide_server, document_contents, document_errors,
                   last_build_errors, active_rebuild_token, guard, clock, calls, task,
                   published, open_progress, log_messages>>
    /\ UNCHANGED outsideSession

\* Config values init_from_client_and_ragu can yield (config.rs:67-78, 83-94).
Configs == [fast_rebuild_on_save : BOOLEAN, fast_rebuild_on_change : BOOLEAN]

\* find_available_port (process.rs:10-15): a port of its own for each
\* subprocess started.
PortOf(id) == 4241 + id

\* did_change_configuration, first-time setup (server.rs:309-327) with
\* initialize_server (server.rs:32-67): on success the config, the port and
\* the process handle are stored; on failure an error is logged.
did_change_configuration ==
    /\ workspace_root # None
    /\ config = None
    /\ guard = 0
    /\ \/ /\ \E c \in Configs : config' = Some(c)
          /\ processes' = Append(processes, "running")
          /\ ide_server' = [port |-> Some(PortOf(Len(processes'))),
                            process |-> Some(Len(processes'))]
          /\ LogMessage("Purescript IDE port")
       \/ /\ LogMessage("Failed to initialize server")
          /\ UNCHANGED <<config, ide_server, processes>>
    /\ UNCHANGED <<workspace_root, document_contents, document_errors,
                   last_build_errors, active_rebuild_token, guard, clock, calls, task,
                   published, open_progress>>
    /\ UNCHANGED outsideServer

\* The editor sends a request or notification; tower-lsp runs its handler
\* concurrently with the handlers still running.
Receive(t, h) ==
    /\ workspace_root # None
    /\ task[t].pc \in {"idle", "done"}
    /\ calls < MaxCalls
    /\ calls' = calls + 1
    /\ task' = [task EXCEPT ![t] = h]
    /\ UNCHANGED <<workspace_root, config, ide_server, document_contents,
                   document_errors, last_build_errors, active_rebuild_token, guard,
                   clock, published, open_progress, log_messages>>
    /\ UNCHANGED outsideSession

\* The handlers the editor can invoke, each at its first step.
Handlers ==
    {Task(k, "store", u, Some(c)) : k \in {"did_open", "did_change"}, u \in Uris, c \in Contents}
    \cup {Task("did_save", "cfg", u, None) : u \in Uris}
    \cup {Task("focus", "cfg", u, None) : u \in Uris}
    \cup {Task("did_close", "close", u, None) : u \in Uris}
    \cup {Task("code_action", "clone", u, None) : u \in Uris}
    \cup {Task("shutdown", "take", None, None)}
    \cup {Task("build", "root", None, Some(quick)) : quick \in BOOLEAN}

\* did_open (server.rs:402-405) and did_change (server.rs:437-440): store
\* the document's text.
StoreContent(t) ==
    /\ task[t].pc = "store"
    /\ guard = 0
    /\ document_contents' = MapInsert(document_contents, task[t].uri, task[t].content.val)
    /\ SetPc(t, "cfg")
    /\ UNCHANGED <<workspace_root, config, ide_server, document_errors,
                   last_build_errors, active_rebuild_token, guard, clock, calls,
                   published, open_progress, log_messages>>
    /\ UNCHANGED outsideSession

\* ServerState::fast_rebuild_on_save / fast_rebuild_on_change (types.rs:52-65)
fast_rebuild_on_save == IF config = None THEN FALSE ELSE config.val.fast_rebuild_on_save
fast_rebuild_on_change == IF config = None THEN FALSE ELSE config.val.fast_rebuild_on_change

\* The in-memory content a handler rebuilds with: its own text (did_open,
\* did_change), the stored text (focus), none (did_save).
RebuildContent(t) ==
    CASE task[t].kind \in {"did_open", "did_change"} -> task[t].content
      [] task[t].kind = "focus" -> MapGet(document_contents, task[t].uri)
      [] OTHER -> None

\* The decision without the test for a foreign import.
C28_RebuildsAnyText(t) ==
    /\ ide_server.port # None
    /\ IF task[t].kind = "did_save" THEN fast_rebuild_on_save
       ELSE fast_rebuild_on_change /\ RebuildContent(t) # None

\* Whether the handler goes on to trigger_fast_rebuild (server.rs:245-256,
\* 413-423, 448-458, 475-481).
WantsRebuild(t) ==
    /\ ide_server.port # None
    /\ IF task[t].kind = "did_save" THEN fast_rebuild_on_save
       ELSE /\ fast_rebuild_on_change
            /\ RebuildContent(t) # None
            /\ ~RebuildContent(t).val.foreign

\* server.rs:236-243, 408-411, 443-446, 470-473: read the settings under the
\* guard, then either call trigger_fast_rebuild or return.
ReadSettings(t) ==
    /\ task[t].pc = "cfg"
    /\ guard = 0
    /\ IF WantsRebuild(t)
       THEN /\ task' = [task EXCEPT ![t].pc = "tfr_take", ![t].content = RebuildContent(t)]
            /\ UNCHANGED log_messages
       ELSE /\ SetPc(t, "done")
            /\ IF task[t].kind = "did_save" /\ fast_rebuild_on_save
               THEN LogMessage("IDE server port not available")
               ELSE UNCHANGED log_messages
    /\ UNCHANGED <<workspace_root, config, ide_server, document_contents,
                   document_errors, last_build_errors, active_rebuild_token, guard,
                   clock, calls, published, open_progress>>
    /\ UNCHANGED outsideSession

\* trigger_fast_rebuild, server.rs:117-129: take the previous token under the
\* guard; with one present the guard is kept while its End is sent.
TakePreviousToken(t) ==
    /\ task[t].pc = "tfr_take"
    /\ guard = 0
    /\ IF active_rebuild_token = None
       THEN /\ SetPc(t, "tfr_create")
            /\ UNCHANGED <<guard, active_rebuild_token>>
       ELSE /\ task' = [task EXCEPT ![t].pc = "tfr_end_prev", ![t].prev = active_rebuild_token]
            /\ active_rebuild_token' = None
            /\ guard' = t
    /\ UNCHANGED <<workspace_root, config, ide_server, document_contents,
                   document_errors, last_build_errors, clock, calls,
                   published, open_progress, log_messages>>
    /\ UNCHANGED outsideSession

\* server.rs:120-128: End for the previous token, then the guard is dropped.
EndPreviousToken(t) ==
    /\ task[t].pc = "tfr_end_prev"
    /\ guard = t
    /\ open_progress' = open_progress \ {task[t].prev.val}
    /\ guard' = 0
    /\ SetPc(t, "tfr_create")
    /\ UNCHANGED <<workspace_root, config, ide_server, document_contents,
                   document_errors, last_build_errors, active_rebuild_token, clock,
                   calls, published, log_messages>>
    /\ UNCHANGED outsideSession

\* server.rs:132-156: make the token and ask the editor to create the
\* progress indicator; on Err log and return.
CreateRebuildToken(t) ==
    /\ task[t].pc = "tfr_create"
    /\ clock' = clock + 1
    /\ \/ /\ task' = [task EXCEPT ![t].pc = "tfr_set",
                                  ![t].token = Some(Token("rebuild", clock'))]
          /\ UNCHANGED log_messages
       \/ /\ SetPc(t, "done")
          /\ LogMessage("Failed to create progress token")
    /\ UNCHANGED <<workspace_root, config, ide_server, document_contents,
                   document_errors, last_build_errors, active_rebuild_token, guard,
                   calls, published, open_progress>>
    /\ UNCHANGED outsideSession

\* server.rs:159-162
StoreActiveToken(t) ==
    /\ task[t].pc = "tfr_set"
    /\ guard = 0
    /\ active_rebuild_token' = task[t].token
    /\ SetPc(t, "tfr_begin")
    /\ UNCHANGED <<workspace_root, config, ide_server, document_contents,
                   document_errors, last_build_errors, guard, clock, calls,
                   published, open_progress, log_messages>>
    /\ UNCHANGED outsideSession

\* server.rs:165-177
SendRebuildBegin(t) ==
    /\ task[t].pc = "tfr_begin"
    /\ open_progress' = open_progress \cup {task[t].token.val}
    /\ SetPc(t, "tfr_rebuild")
    /\ UNCHANGED <<workspace_root, config, ide_server, document_contents,
                   document_errors, last_build_errors, active_rebuild_token, guard,
                   clock, calls, published, log_messages>>
    /\ UNCHANGED outsideSession

\* server.rs:179-180: the rebuild request and the analysis server's answer.
AwaitRebuild(t) ==
    /\ task[t].pc = "tfr_rebuild"
    /\ \E response \in IdeResponses :
          task' = [task EXCEPT ![t].pc = "tfr_clear",
                               ![t].result = rebuild_file_with_content(response, task[t].content)]
    /\ UNCHANGED <<workspace_root, config, ide_server, document_contents,
                   document_errors, last_build_errors, active_rebuild_token, guard,
                   clock, calls, published, open_progress, log_messages>>
    /\ UNCHANGED outsideSession

\* server.rs:183-186
ClearActiveToken(t) ==
    /\ task[t].pc = "tfr_clear"
    /\ guard = 0
    /\ active_rebuild_token' = None
    /\ SetPc(t, "tfr_end")
    /\ UNCHANGED <<workspace_root, config, ide_server, document_contents,
                   document_errors, last_build_errors, guard, clock, calls,
                   published, open_progress, log_messages>>
    /\ UNCHANGED outsideSession

\* server.rs:188-197: End for the own token, then the match on the result.
SendRebuildEnd(t) ==
    /\ task[t].pc = "tfr_end"
    /\ open_progress' = open_progress \ {task[t].token.val}
    /\ SetPc(t, CASE task[t].result.kind = "Err" -> "tfr_log"
                  [] task[t].result.val.errors = None -> "tfr_remove"
                  [] OTHER -> "tfr_insert")
    /\ UNCHANGED <<workspace_root, config, ide_server, document_contents,
                   document_errors, last_build_errors, active_rebuild_token, guard,
                   clock, calls, published, log_messages>>
    /\ UNCHANGED outsideSession

\* The new errors are appended to the stored ones.
C7_MergeRebuildErrors(t) ==
    /\ task[t].pc = "tfr_insert"
    /\ guard = 0
    /\ document_errors' =
           MapInsert(document_errors, task[t].uri,
                     (IF task[t].uri \in DOMAIN document_errors
                      THEN document_errors[task[t].uri] ELSE << >>)
                     \o task[t].result.val.errors.val)
    /\ SetPc(t, "tfr_publish")
    /\ UNCHANGED <<workspace_root, config, ide_server, document_contents,
                   last_build_errors, active_rebuild_token, guard, clock, calls,
                   published, open_progress, log_messages>>
    /\ UNCHANGED outsideSession

\* server.rs:200-207: store the errors for code actions.
StoreRebuildErrors(t) ==
    /\ task[t].pc = "tfr_insert"
    /\ guard = 0
    /\ document_errors' = MapInsert(document_errors, task[t].uri, task[t].result.val.errors.val)
    /\ SetPc(t, IF convert_rebuild_errors(task[t].result.val.errors.val) # << >>
                THEN "tfr_publish" ELSE "done")
    /\ UNCHANGED <<workspace_root, config, ide_server, document_contents,
                   last_build_errors, active_rebuild_token, guard, clock, calls,
                   published, open_progress, log_messages>>
    /\ UNCHANGED outsideSession

\* client.publish_diagnostics(uri, diagnostics, None)
Publish(uri, diagnostics) == published' = MapInsert(published, uri, diagnostics)

\* server.rs:209-213
PublishRebuildErrors(t) ==
    /\ task[t].pc = "tfr_publish"
    /\ Publish(task[t].uri, convert_rebuild_errors(task[t].result.val.errors.val))
    /\ SetPc(t, "done")
    /\ UNCHANGED <<workspace_root, config, ide_server, document_contents,
                   document_errors, last_build_errors, active_rebuild_token, guard,
                   clock, calls, open_progress, log_messages>>
    /\ UNCHANGED outsideSession

\* server.rs:216-219
RemoveRebuildErrors(t) ==
    /\ task[t].pc = "tfr_remove"
    /\ guard = 0
    /\ document_errors' = MapRemove(document_errors, task[t].uri)
    /\ SetPc(t, "tfr_publish_empty")
    /\ UNCHANGED <<workspace_root, config, ide_server, document_contents,
                   last_build_errors, active_rebuild_token, guard, clock, calls,
                   published, open_progress, log_messages>>
    /\ UNCHANGED outsideSession

\* server.rs:220-222
PublishRebuildEmpty(t) ==
    /\ task[t].pc = "tfr_publish_empty"
    /\ Publish(task[t].uri, << >>)
    /\ SetPc(t, "done")
    /\ UNCHANGED <<workspace_root, config, ide_server, document_contents,
                   document_errors, last_build_errors, active_rebuild_token, guard,
                   clock, calls, open_progress, log_messages>>
    /\ UNCHANGED outsideSession

\* The failure clears the document's stored and published diagnostics.
C10_ClearOnFailure(t) ==
    /\ task[t].pc = "tfr_log"
    /\ LogMessage("Fast rebuild failed")
    /\ document_errors' = MapRemove(document_errors, task[t].uri)
    /\ Publish(task[t].uri, << >>)
    /\ SetPc(t, "done")
    /\ UNCHANGED <<workspace_root, config, ide_server, document_contents,
                   last_build_errors, active_rebuild_token, guard,
                   clock, calls, open_progress>>
    /\ UNCHANGED outsideSession

\* server.rs:225-229
LogRebuildFailure(t) ==
    /\ task[t].pc = "tfr_log"
    /\ LogMessage("Fast rebuild failed")
    /\ SetPc(t, "done")
    /\ UNCHANGED <<workspace_root, config, ide_server, document_contents,
                   document_errors, last_build_errors, active_rebuild_token, guard,
                   clock, calls, published, open_progress>>
    /\ UNCHANGED outsideSession

\* did_close (server.rs:503-512)
did_close(t) ==
    /\ task[t].pc = "close"
    /\ guard = 0
    /\ document_contents' = MapRemove(document_contents, task[t].uri)
    /\ document_errors' = MapRemove(document_errors, task[t].uri)
    /\ SetPc(t, "done")
    /\ UNCHANGED <<workspace_root, config, ide_server, last_build_errors,
                   active_rebuild_token, guard, clock, calls, published,
                   open_progress, log_messages>>
    /\ UNCHANGED outsideSession

\* code_action (server.rs:561-574): clone the document's errors under the
\* guard; the actions are computed from the clone.
code_action(t) ==
    /\ task[t].pc = "clone"
    /\ guard = 0
    /\ task' = [task EXCEPT ![t].pc = "done",
                            ![t].result = Ok(IF task[t].uri \in DOMAIN document_errors
                                             THEN document_errors[task[t].uri] ELSE << >>)]
    /\ UNCHANGED <<workspace_root, config, ide_server, document_contents,
                   document_errors, last_build_errors, active_rebuild_token, guard,
                   clock, calls, published, open_progress, log_messages>>
    /\ UNCHANGED outsideSession

\* What the session was doing when a shutdown was handled: the tasks then
\* awaiting the result of a build or of a fast rebuild, and the handler
\* invocations so far.  Nothing in the code reads it; it is kept for stating
\* what happens afterwards.
AtShutdown(t) ==
    [in_flight |-> {u \in Tasks \ {t} : task[u].pc \in {"tfr_rebuild", "result"}},
     calls |-> calls]

\* Child::kill (server.rs:91, 377): once it has returned the subprocess runs
\* no more, whether the signal ended it or it had already exited (the Err
\* case, which shutdown logs as a failure to stop).
kill(procs, handle) == [procs EXCEPT ![handle] = "dead"]

\* shutdown (server.rs:368-395): take the process handle, kill it, log.
shutdown(t) ==
    /\ task[t].pc = "take"
    /\ guard = 0
    /\ ide_server' = [ide_server EXCEPT !.process = None]
    /\ IF ide_server.process # None
       THEN /\ processes' = kill(processes, ide_server.process.val)
            /\ \E m \in {"PureScript IDE server stopped", "Failed to stop IDE server"} :
                  LogMessage(m)
       ELSE UNCHANGED <<log_messages, processes>>
    /\ task' = [task EXCEPT ![t].pc = "done", ![t].result = Ok(AtShutdown(t))]
    /\ UNCHANGED <<workspace_root, config, document_contents, document_errors,
                   last_build_errors, active_rebuild_token, guard, clock, calls,
                   published, open_progress>>
    /\ UNCHANGED outsideServer

(***************************************************************************)
(* The build command: execute of commands/build.rs.                        *)
(***************************************************************************)
\* commands/build.rs:20-33: read the workspace root; without one, log and
\* return Err.
ReadWorkspaceRoot(t) ==
    /\ task[t].pc = "root"
    /\ guard = 0
    /\ IF workspace_root = None
       THEN /\ LogMessage("No workspace root available for build command")
            /\ SetPc(t, "done")
       ELSE /\ SetPc(t, "create")
            /\ UNCHANGED log_messages
    /\ UNCHANGED <<workspace_root, config, ide_server, document_contents,
                   document_errors, last_build_errors, active_rebuild_token, guard,
                   clock, calls, published, open_progress>>
    /\ UNCHANGED outsideSession

\* commands/build.rs:36-58
CreateBuildToken(t) ==
    /\ task[t].pc = "create"
    /\ clock' = clock + 1
    /\ \/ /\ task' = [task EXCEPT ![t].pc = "begin",
                                  ![t].token = Some(Token("build", clock'))]
          /\ UNCHANGED log_messages
       \/ /\ SetPc(t, "done")
          /\ LogMessage("Failed to create progress token")
    /\ UNCHANGED <<workspace_root, config, ide_server, document_contents,
                   document_errors, last_build_errors, active_rebuild_token, guard,
                   calls, published, open_progress>>
    /\ UNCHANGED outsideSession

\* commands/build.rs:63-86: Begin, then the build task is spawned and starts
\* the build; execute returns Ok.
SendBuildBegin(t) ==
    /\ task[t].pc = "begin"
    /\ open_progress' = open_progress \cup {task[t].token.val}
    /\ SetPc(t, "result")
    /\ UNCHANGED <<workspace_root, config, ide_server, document_contents,
                   document_errors, last_build_errors, active_rebuild_token, guard,
                   clock, calls, published, log_messages>>
    /\ UNCHANGED outsideSession

\* commands/build.rs:111-154, 218-222: the result arrives.  Ok: the summary
\* is logged and the completion Report sent.  Err: the failure is logged.
BuildResultArrives(t, r) ==
    /\ task[t].pc = "result"
    /\ task' = [task EXCEPT ![t].pc = IF r.kind = "Ok" THEN "retract" ELSE "end",
                            ![t].result = r]
    /\ LogMessage(IF r.kind = "Ok" THEN "Build completed" ELSE "Build failed")
    /\ UNCHANGED <<workspace_root, config, ide_server, document_contents,
                   document_errors, last_build_errors, active_rebuild_token, guard,
                   clock, calls, published, open_progress>>
    /\ UNCHANGED outsideSession

\* commands/build.rs:111: `result_rx.await`, with what the build sends.
AwaitBuildResult(t) == \E r \in BuildOutcomes : BuildResultArrives(t, r)

\* The retraction pass is skipped.
C5_NoRetraction(t) ==
    /\ task[t].pc = "retract"
    /\ guard = 0
    /\ SetPc(t, "clear")
    /\ UNCHANGED <<workspace_root, config, ide_server, document_contents,
                   document_errors, last_build_errors, active_rebuild_token, guard,
                   clock, calls, published, open_progress, log_messages>>
    /\ UNCHANGED outsideSession

\* commands/build.rs:158-166: under the guard, for every key of
\* last_build_errors that ends with ".purs" an empty set is published; the
\* guard is held until the loop ends.
LockForRetraction(t) ==
    /\ task[t].pc = "retract"
    /\ guard = 0
    /\ LET purs == {uri \in DOMAIN last_build_errors : EndsWithPurs(uri)} IN
       IF purs = {}
       THEN /\ SetPc(t, "clear")
            /\ UNCHANGED guard
       ELSE /\ task' = [task EXCEPT ![t].pc = "retracting", ![t].todo = purs]
            /\ guard' = t
    /\ UNCHANGED <<workspace_root, config, ide_server, document_contents,
                   document_errors, last_build_errors, active_rebuild_token,
                   clock, calls, published, open_progress, log_messages>>
    /\ UNCHANGED outsideSession

\* The guard is kept after the last publish of the retraction loop.
C4_RetractKeepsGuard(t, uri) ==
    /\ task[t].pc = "retracting"
    /\ guard = t
    /\ uri \in task[t].todo
    /\ Publish(uri, << >>)
    /\ IF task[t].todo = {uri}
       THEN task' = [task EXCEPT ![t].pc = "clear", ![t].todo = {}]
       ELSE task' = [task EXCEPT ![t].todo = @ \ {uri}]
    /\ UNCHANGED <<workspace_root, config, ide_server, document_contents,
                   document_errors, last_build_errors, active_rebuild_token, guard,
                   clock, calls, open_progress, log_messages>>
    /\ UNCHANGED outsideSession

\* commands/build.rs:163: one publish of the retraction loop; after the last
\* one the guard is dropped.
RetractOne(t, uri) ==
    /\ task[t].pc = "retracting"
    /\ guard = t
    /\ uri \in task[t].todo
    /\ Publish(uri, << >>)
    /\ IF task[t].todo = {uri}
       THEN /\ task' = [task EXCEPT ![t].pc = "clear", ![t].todo = {}]
            /\ guard' = 0
       ELSE /\ task' = [task EXCEPT ![t].todo = @ \ {uri}]
            /\ UNCHANGED guard
    /\ UNCHANGED <<workspace_root, config, ide_server, document_contents,
                   document_errors, last_build_errors, active_rebuild_token,
                   clock, calls, open_progress, log_messages>>
    /\ UNCHANGED outsideSession

\* Warnings are shown for every file, the dependencies' included.
C6_AllWarningFiles(build_result) == DOMAIN build_result.warnings

\* The files whose warnings are shown (commands/build.rs:197).
LocalWarningFiles(build_result) ==
    {f \in DOMAIN build_result.warnings : ~ContainsSpago(f)}

\* Where the build task goes once the files in `todo` of a loop are done.
AfterErrors(build_result) ==
    IF LocalWarningFiles(build_result) # {} THEN "warnings" ELSE "end"
AfterClear(build_result) ==
    IF DOMAIN build_result.errors # {} THEN "errors" ELSE AfterErrors(build_result)

\* The entries of the previous build are kept.
C15_KeepLastBuildErrors(t) ==
    /\ task[t].pc = "clear"
    /\ guard = 0
    /\ task' = [task EXCEPT ![t].pc = AfterClear(task[t].result.val),
                            ![t].todo = IF DOMAIN task[t].result.val.errors # {}
                                        THEN DOMAIN task[t].result.val.errors
                                        ELSE LocalWarningFiles(task[t].result.val)]
    /\ UNCHANGED <<workspace_root, config, ide_server, document_contents,
                   document_errors, last_build_errors, active_rebuild_token, guard,
                   clock, calls, published, open_progress, log_messages>>
    /\ UNCHANGED outsideSession

\* commands/build.rs:169-172
ClearLastBuildErrors(t) ==
    /\ task[t].pc = "clear"
    /\ guard = 0
    /\ last_build_errors' = EmptyMap
    /\ task' = [task EXCEPT ![t].pc = AfterClear(task[t].result.val),
                            ![t].todo = IF DOMAIN task[t].result.val.errors # {}
                                        THEN DOMAIN task[t].result.val.errors
                                        ELSE LocalWarningFiles(task[t].result.val)]
    /\ UNCHANGED <<workspace_root, config, ide_server, document_contents,
                   document_errors, active_rebuild_token, guard,
                   clock, calls, published, open_progress, log_messages>>
    /\ UNCHANGED outsideSession

\* commands/build.rs:178-186: the next file of build_result.errors (a HashMap:
\* any order); its errors are stored under its URI.
StoreBuildErrors(t, file_path) ==
    /\ task[t].pc = "errors"
    /\ guard = 0
    /\ file_path \in task[t].todo
    /\ LET uri == file_path_to_uri(file_path, workspace_root.val) IN
       /\ uri # None
       /\ last_build_errors' =
              MapInsert(last_build_errors, uri.val, task[t].result.val.errors[file_path])
    /\ task' = [task EXCEPT ![t].pc = "publish_errors", ![t].cur = Some(file_path)]
    /\ UNCHANGED <<workspace_root, config, ide_server, document_contents,
                   document_errors, active_rebuild_token, guard,
                   clock, calls, published, open_progress, log_messages>>
    /\ UNCHANGED outsideSession

\* commands/build.rs:189-190
PublishBuildErrors(t) ==
    /\ task[t].pc = "publish_errors"
    /\ LET file_path == task[t].cur.val
           left == task[t].todo \ {file_path}
       IN /\ Publish(file_path_to_uri(file_path, workspace_root.val).val,
                     convert_rebuild_errors(task[t].result.val.errors[file_path]))
          /\ task' = [task EXCEPT
                 ![t].pc = IF left # {} THEN "errors" ELSE AfterErrors(task[t].result.val),
                 ![t].todo = IF left # {} THEN left ELSE LocalWarningFiles(task[t].result.val),
                 ![t].cur = None]
    /\ UNCHANGED <<workspace_root, config, ide_server, document_contents,
                   document_errors, last_build_errors, active_rebuild_token, guard,
                   clock, calls, open_progress, log_messages>>
    /\ UNCHANGED outsideSession

\* commands/build.rs:195-209: the next file of build_result.warnings that is
\* not under .spago; its warnings are appended to the URI's entry.
StoreBuildWarnings(t, file_path) ==
    /\ task[t].pc = "warnings"
    /\ guard = 0
    /\ file_path \in task[t].todo
    /\ LET uri == file_path_to_uri(file_path, workspace_root.val)
           existing == IF uri.val \in DOMAIN last_build_errors
                       THEN last_build_errors[uri.val] ELSE << >>
       IN /\ uri # None
          /\ last_build_errors' =
                 MapInsert(last_build_errors, uri.val,
                           existing \o task[t].result.val.warnings[file_path])
    /\ task' = [task EXCEPT ![t].pc = "publish_warnings", ![t].cur = Some(file_path)]
    /\ UNCHANGED <<workspace_root, config, ide_server, document_contents,
                   document_errors, active_rebuild_token, guard,
                   clock, calls, published, open_progress, log_messages>>
    /\ UNCHANGED outsideSession

\* commands/build.rs:212-213
PublishBuildWarnings(t) ==
    /\ task[t].pc = "publish_warnings"
    /\ LET file_path == task[t].cur.val
           left == task[t].todo \ {file_path}
       IN /\ Publish(file_path_to_uri(file_path, workspace_root.val).val,
                     convert_rebuild_errors(task[t].result.val.warnings[file_path]))
          /\ task' = [task EXCEPT ![t].pc = IF left # {} THEN "warnings" ELSE "end",
                                  ![t].todo = left,
                                  ![t].cur = None]
    /\ UNCHANGED <<workspace_root, config, ide_server, document_contents,
                   document_errors, last_build_errors, active_rebuild_token, guard,
                   clock, calls, open_progress, log_messages>>
    /\ UNCHANGED outsideSession

\* commands/build.rs:226-233
SendBuildEnd(t) ==
    /\ task[t].pc = "end"
    /\ open_progress' = open_progress \ {task[t].token.val}
    /\ SetPc(t, "done")
    /\ UNCHANGED <<workspace_root, config, ide_server, document_contents,
                   document_errors, last_build_errors, active_rebuild_token, guard,
                   clock, calls, published, log_messages>>
    /\ UNCHANGED outsideSession

\* The files a build result names.
BuildFiles == {MainPurs, DepPurs, ForeignJs}
BuildUris == {file_path_to_uri(f, WorkspaceRoot).val : f \in BuildFiles}

Next ==
    \/ initialize
    \/ did_change_configuration
    \/ \E t \in Tasks, h \in Handlers : Receive(t, h)
    \/ \E t \in Tasks : StoreContent(t)
    \/ \E t \in Tasks : ReadSettings(t)
    \/ \E t \in Tasks : TakePreviousToken(t)
    \/ \E t \in Tasks : EndPreviousToken(t)
    \/ \E t \in Tasks : CreateRebuildToken(t)
    \/ \E t \in Tasks : StoreActiveToken(t)
    \/ \E t \in Tasks : SendRebuildBegin(t)
    \/ \E t \in Tasks : AwaitRebuild(t)
    \/ \E t \in Tasks : ClearActiveToken(t)
    \/ \E t \in Tasks : SendRebuildEnd(t)
    \/ \E t \in Tasks : StoreRebuildErrors(t)
    \/ \E t \in Tasks : PublishRebuildErrors(t)
    \/ \E t \in Tasks : RemoveRebuildErrors(t)
    \/ \E t \in Tasks : PublishRebuildEmpty(t)
    \/ \E t \in Tasks : LogRebuildFailure(t)
    \/ \E t \in Tasks : did_close(t)
    \/ \E t \in Tasks : code_action(t)
    \/ \E t \in Tasks : shutdown(t)
    \/ \E t \in Tasks : ReadWorkspaceRoot(t)
    \/ \E t \in Tasks : CreateBuildToken(t)
    \/ \E t \in Tasks : SendBuildBegin(t)
    \/ \E t \in Tasks : AwaitBuildResult(t)
    \/ \E t \in Tasks : LockForRetraction(t)
    \/ \E t \in Tasks, uri \in BuildUris : RetractOne(t, uri)
    \/ \E t \in Tasks : ClearLastBuildErrors(t)
    \/ \E t \in Tasks, f \in BuildFiles : StoreBuildErrors(t, f)
    \/ \E t \in Tasks : PublishBuildErrors(t)
    \/ \E t \in Tasks, f \in BuildFiles : StoreBuildWarnings(t, f)
    \/ \E t \in Tasks : PublishBuildWarnings(t)
    \/ \E t \in Tasks : SendBuildEnd(t)

\* No build has run: the coordinator's variables rest.
BuildIdle ==
    /\ args = run_build
    /\ coord = "start"
    /\ child = "unspawned"
    /\ written = [s \in Streams |-> << >>]
    /\ pipe = [s \in Streams |-> << >>]
    /\ reader = [s \in Streams |-> "unspawned"]
    /\ lines = [s \in Streams |-> << >>]
    /\ progress_chan = << >>
    /\ result_chan = << >>

\* The session as Backend::new leaves it (server.rs:24-30).
Init == BuildIdle /\ SessInit

Spec == Init /\ [][Next]_vars

\* The steps of task t that the runtime takes by itself: every step of a
\* handler but the arrival of the analysis server's answer (AwaitRebuild) and
\* of the build result (AwaitBuildResult), which the external tools decide.
TaskStep(t) ==
    \/ StoreContent(t)
    \/ ReadSettings(t)
    \/ TakePreviousToken(t)
    \/ EndPreviousToken(t)
    \/ CreateRebuildToken(t)
    \/ StoreActiveToken(t)
    \/ SendRebuildBegin(t)
    \/ ClearActiveToken(t)
    \/ SendRebuildEnd(t)
    \/ StoreRebuildErrors(t)
    \/ PublishRebuildErrors(t)
    \/ RemoveRebuildErrors(t)
    \/ PublishRebuildEmpty(t)
    \/ LogRebuildFailure(t)
    \/ did_close(t)
    \/ code_action(t)
    \/ shutdown(t)
    \/ ReadWorkspaceRoot(t)
    \/ CreateBuildToken(t)
    \/ SendBuildBegin(t)
    \/ LockForRetraction(t)
    \/ \E uri \in BuildUris : RetractOne(t, uri)
    \/ ClearLastBuildErrors(t)
    \/ \E f \in BuildFiles : StoreBuildErrors(t, f)
    \/ PublishBuildErrors(t)
    \/ \E f \in BuildFiles : StoreBuildWarnings(t, f)
    \/ PublishBuildWarnings(t)
    \/ SendBuildEnd(t)

\* The session under the runtime's scheduling: a task that can step is
\* eventually polled (tokio runs every woken task, its Mutex wakes waiters in
\* order).  Nothing is assumed of the editor's requests or the external tools.
\* The session once the editor has initialised it and the analysis server
\* runs, with the settings init_from_ragu defaults to (config.rs:67-78).
InitializedState ==
    /\ BuildIdle
    /\ workspace_root = Some(WorkspaceRoot)
    /\ config = Some([fast_rebuild_on_save |-> TRUE, fast_rebuild_on_change |-> TRUE])
    /\ ide_server = [port |-> Some(PortOf(1)), process |-> Some(1)]
    /\ processes = <<"running">>
    /\ document_contents = EmptyMap
    /\ document_errors = EmptyMap
    /\ last_build_errors = EmptyMap
    /\ active_rebuild_token = None
    /\ guard = 0
    /\ clock = 0
    /\ calls = 0
    /\ task = [t \in Tasks |-> Idle]
    /\ published = EmptyMap
    /\ open_progress = {}
    /\ log_messages = Some("Purescript IDE port")

InitializedSession ==
    InitializedState /\ fix = NoRequest /\ call = NoCall /\ wire = NoConnection

\* The handlers of an initialised session.
HandlerNext ==
    \/ \E t \in Tasks, h \in Handlers : Receive(t, h)
    \/ \E t \in Tasks : AwaitRebuild(t)
    \/ \E t \in Tasks : AwaitBuildResult(t)
    \/ \E t \in Tasks : TaskStep(t)

FairSpec ==
    InitializedSession /\ [][HandlerNext]_vars /\ \A t \in Tasks : WF_vars(TaskStep(t))

(***************************************************************************)
(* Claims about the session (checked under Spec).                          *)
(***************************************************************************)
UriOf(file_path) == file_path_to_uri(file_path, WorkspaceRoot).val
DepUri == UriOf(DepPurs)
JsUri == UriOf(ForeignJs)

\* Task t takes a step of the handler it is running.
StepOf(t) == task'[t] # task[t] /\ task[t].pc \notin {"idle", "done"}

\* The handlers that end in trigger_fast_rebuild.
RebuildKinds == {"did_open", "did_change", "did_save", "focus"}

\* Task t is inside a handler and not awaiting an external tool.
Busy(t) == task[t].pc \notin {"idle", "done", "tfr_rebuild", "result"}

\* C4: the session stays responsive while a build or a fast rebuild is in
\* flight: the guard is only ever held by a task that is sending to the
\* editor (never by one awaiting the build result or the analysis server), and
\* every task inside a handler eventually gets the guard where it needs it
\* and reaches the handler's end or its wait for the external tool, whether or
\* not the builds and rebuilds in flight ever finish.
C4_SessionStaysResponsive ==
    /\ [](guard # 0 => task[guard].pc \in {"tfr_end_prev", "retracting"})
    /\ \A t \in Tasks : Busy(t) ~> ~Busy(t)

\* C4 witness: while a build awaits its result, a handler that arrived after
\* the build began has run a fast rebuild through the guard to its end.
C4_Witness ==
    \E t, u \in Tasks :
       /\ task[t].kind = "build" /\ task[t].pc = "result"
       /\ task[u].kind \in RebuildKinds /\ task[u].pc = "done"
       /\ task[u].token # None /\ task[u].token.val.at > task[t].token.val.at
       /\ task[u].result.kind = "Ok"

PursKeys == {uri \in DOMAIN last_build_errors : EndsWithPurs(uri)}

\* C5 as claimed: when a build result is processed, the retraction pass
\* covers every key of last_build_errors.
C5_RetractsEveryKey ==
    [][\A t \in Tasks :
          (StepOf(t) /\ task[t].pc = "retract") =>
             \/ task'[t].pc = "retracting" /\ task'[t].todo = DOMAIN last_build_errors
             \/ task'[t].pc = "clear" /\ DOMAIN last_build_errors = {}]_vars

\* C5 as amended: the retraction pass covers every key of last_build_errors
\* whose URI ends with ".purs": each is published empty, under the guard,
\* before the pass ends; the build's own diagnostics are published only
\* after the pass, and only for files of the new result, so a .purs file of
\* the previous build that the new build does not name is left empty by it.
C5_RetractsPursKeysFirst ==
    [][\A t \in Tasks : StepOf(t) =>
          /\ task[t].pc = "retract" =>
                \/ task'[t].pc = "retracting" /\ task'[t].todo = PursKeys /\ guard' = t
                \/ task'[t].pc = "clear" /\ PursKeys = {}
          /\ task[t].pc = "retracting" =>
                /\ UNCHANGED last_build_errors
                /\ \E uri \in task[t].todo :
                      /\ task'[t].todo = task[t].todo \ {uri}
                      /\ published'[uri] = << >>
                /\ (task'[t].pc = "clear") <=> (task'[t].todo = {})
          /\ (task[t].kind = "build" /\ published' # published
              /\ task[t].pc # "retracting") =>
                /\ task[t].pc \in {"publish_errors", "publish_warnings"}
                /\ \E f \in DOMAIN task[t].result.val.errors
                            \cup DOMAIN task[t].result.val.warnings :
                      /\ UriOf(f) \in DOMAIN published'
                      /\ published' = MapInsert(published, UriOf(f), published'[UriOf(f)])]_vars

\* C5 witness: a second build, which reports nothing, has retracted the
\* diagnostics the first build published for Main.purs.
C5_Witness ==
    \E t \in Tasks :
       /\ task[t].pc = "clear"
       /\ task[t].result = BuildOutcome(TRUE, OutputClean)
       /\ MainUri \in DOMAIN last_build_errors
       /\ MainUri \in DOMAIN published /\ published[MainUri] = << >>

\* C6: a warning of a build result is stored and published only for a file
\* that is not under .spago; an error is stored and published for its file
\* whatever its path, the .spago files included.
C6_WarningsLocalErrorsAll ==
    /\ [](/\ DepUri \in DOMAIN last_build_errors =>
                WarnDep \notin Range(last_build_errors[DepUri])
          /\ DepUri \in DOMAIN published =>
                rebuild_error_to_diagnostic(WarnDep).val \notin Range(published[DepUri])
          /\ \A t \in Tasks :
                task[t].pc \in {"warnings", "publish_warnings"} =>
                   \A f \in task[t].todo : ~ContainsSpago(f))
    /\ [][\A t \in Tasks : StepOf(t) =>
             /\ task[t].pc = "clear" =>
                   \/ DOMAIN task[t].result.val.errors = {}
                   \/ /\ task'[t].pc = "errors"
                      /\ task'[t].todo = DOMAIN task[t].result.val.errors
             /\ task[t].pc = "errors" =>
                   \E f \in task[t].todo :
                      /\ task'[t].cur = Some(f)
                      /\ UriOf(f) \in DOMAIN last_build_errors'
                      /\ last_build_errors'[UriOf(f)] = task[t].result.val.errors[f]
             /\ task[t].pc = "publish_errors" =>
                   LET f == task[t].cur.val IN
                   /\ published'[UriOf(f)] =
                         convert_rebuild_errors(task[t].result.val.errors[f])
                   /\ task'[t].pc = "errors" <=> task[t].todo # {f}]_vars

\* C6 witness: a build has ended whose result holds an error and a warning
\* for a file under .spago; the error is stored and published.
C6_Witness ==
    \E t \in Tasks :
       /\ task[t].kind = "build" /\ task[t].pc = "done"
       /\ task[t].result = BuildOutcome(FALSE, OutputMixed)
       /\ DepUri \in DOMAIN last_build_errors /\ last_build_errors[DepUri] = <<ErrDep>>
       /\ DepUri \in DOMAIN published
       /\ published[DepUri] = convert_rebuild_errors(<<ErrDep>>)

C8_AtMostOneRebuildIndicator ==
    Cardinality({tk \in open_progress : tk.prefix = "rebuild"}) <= 1

\* C9: did_close removes the document's text and stored diagnostics, and
\* the URI's published diagnostics are retracted (the list published last
\* for it is empty once the close is done).
C9_CloseRetractsDiagnostics ==
    [][\A t \in Tasks :
          (StepOf(t) /\ task[t].pc = "close") =>
             /\ task[t].uri \notin DOMAIN document_contents'
             /\ task[t].uri \notin DOMAIN document_errors'
             /\ task[t].uri \in DOMAIN published' => published'[task[t].uri] = << >>]_vars

DiagnosticState == <<document_errors, last_build_errors, published>>

\* Where a fast-rebuild handler or a build stands before its result is known.
BeforeResult ==
    {"store", "cfg", "tfr_take", "tfr_end_prev", "tfr_create", "tfr_set", "tfr_begin",
     "tfr_rebuild", "root", "create", "begin", "result"}

\* C10: a failed fast rebuild or build is non-destructive: no step of the
\* operation up to its result, and no step of it once the result is an Err,
\* changes document_errors, last_build_errors or the published diagnostics;
\* and the failure is logged to the editor.
C10_FailureIsNonDestructive ==
    [][\A t \in Tasks : StepOf(t) =>
          /\ (task[t].pc \in BeforeResult \/ task[t].result.kind = "Err") =>
                UNCHANGED DiagnosticState
          /\ (task[t].pc = "tfr_end" /\ task[t].result.kind = "Err") =>
                task'[t].pc = "tfr_log"
          /\ task[t].pc = "tfr_log" => log_messages' = Some("Fast rebuild failed")
          /\ (task[t].pc = "result" /\ task'[t].result.kind = "Err") =>
                log_messages' = Some("Build failed")]_vars

\* C10 witness: a fast rebuild has failed and been logged while the
\* document's earlier diagnostics are still stored and published.
C10_Witness ==
    \E t \in Tasks :
       /\ task[t].pc = "done" /\ task[t].result.kind = "Err"
       /\ task[t].kind \in RebuildKinds
       /\ log_messages = Some("Fast rebuild failed")
       /\ MainUri \in DOMAIN document_errors
       /\ MainUri \in DOMAIN published /\ published[MainUri] # << >>

\* C11: after shutdown has been handled, a build or fast rebuild that was in
\* flight at the shutdown is discarded: no later step of it publishes
\* diagnostics or changes document_errors or last_build_errors.  (Stated for
\* the runs in which no further request follows the shutdown.)
C11_InFlightResultDiscarded ==
    [][\A u, t \in Tasks :
          (/\ task[u].kind = "shutdown" /\ task[u].pc = "done"
           /\ t \in task[u].result.val.in_flight
           /\ calls = task[u].result.val.calls
           /\ StepOf(t))
          => UNCHANGED DiagnosticState]_vars

\* C13: no task holds the session-state guard across an asynchronous
\* operation.  Every use of the guard that ends before the task next
\* suspends is one step of the model, so the guard is held between steps
\* exactly when a task awaits with it: the claim is that it never is.
C13_GuardNeverHeldAcrossAwait == guard = 0

\* What the processing of build_result alone stores for file_path: its errors
\* followed by its warnings, unless the file is under .spago.
StoredByBuild(build_result, file_path) ==
    (IF file_path \in DOMAIN build_result.errors
     THEN build_result.errors[file_path] ELSE << >>)
    \o (IF file_path \in LocalWarningFiles(build_result)
        THEN build_result.warnings[file_path] ELSE << >>)

\* The entry of last_build_errors for a file, empty when there is none.
LastBuildEntry(file_path) ==
    IF UriOf(file_path) \in DOMAIN last_build_errors
    THEN last_build_errors[UriOf(file_path)] ELSE << >>

\* Two builds have run to their end, each with an Ok result.
BothBuildsDone ==
    \A t \in Tasks : /\ task[t].kind = "build" /\ task[t].pc = "done"
                     /\ task[t].result.kind = "Ok"

\* C14: overlapping builds are safe by last-writer-wins: once both builds
\* have finished, what last_build_errors holds for each file is what exactly
\* one of the two builds stores for it, never a mixture of both and never a
\* list with entries duplicated.
C14_OverlappingBuildsLastWriterWins ==
    BothBuildsDone =>
        \A f \in BuildFiles :
           \E t \in Tasks : LastBuildEntry(f) = StoredByBuild(task[t].result.val, f)


(***************************************************************************)
(* The analysis-server subprocess: did_change_configuration step by step   *)
(* (server.rs:309-366) with initialize_server (server.rs:32-67),           *)
(* restart_server (server.rs:70-99) and start_ide_server_async             *)
(* (ide_server/process.rs:65-169).                                         *)
(***************************************************************************)
\* server.rs:311-328: read is_initialized and the workspace root under the
\* guard.
ReadInitialized(t) ==
    /\ task[t].pc = "cc_read"
    /\ guard = 0
    /\ SetPc(t, IF config # None THEN "cc_fetch"
                ELSE IF workspace_root # None THEN "is_config" ELSE "done")
    /\ UNCHANGED <<workspace_root, config, ide_server, document_contents,
                   document_errors, last_build_errors, active_rebuild_token,
                   guard, clock, calls, published, open_progress, log_messages>>
    /\ UNCHANGED outsideSession

\* server.rs:330-364: fetch the client's settings and compare them with the
\* current ones; restart when they differ.
FetchClientConfig(t) ==
    /\ task[t].pc = "cc_fetch"
    /\ guard = 0
    /\ \E new_client_config \in Configs :
          IF config = None \/ Some(new_client_config) # config
          THEN /\ LogMessage("Client configuration changed, restarting IDE server")
               /\ SetPc(t, "rs_root")
          ELSE /\ LogMessage("Configuration unchanged, skipping restart")
               /\ SetPc(t, "done")
    /\ UNCHANGED <<workspace_root, config, ide_server, document_contents,
                   document_errors, last_build_errors, active_rebuild_token,
                   guard, clock, calls, published, open_progress>>
    /\ UNCHANGED outsideSession

\* restart_server, server.rs:71-82
RestartReadRoot(t) ==
    /\ task[t].pc = "rs_root"
    /\ guard = 0
    /\ IF workspace_root # None
       THEN /\ LogMessage("Configuration changed, restarting IDE server...")
            /\ SetPc(t, "rs_take")
       ELSE /\ UNCHANGED log_messages
            /\ SetPc(t, "done")
    /\ UNCHANGED <<workspace_root, config, ide_server, document_contents,
                   document_errors, last_build_errors, active_rebuild_token,
                   guard, clock, calls, published, open_progress>>
    /\ UNCHANGED outsideSession

\* restart_server, server.rs:85-88: take the process handle out of the state.
RestartTake(t) ==
    /\ task[t].pc = "rs_take"
    /\ guard = 0
    /\ task' = [task EXCEPT ![t].pc = "rs_kill", ![t].prev = ide_server.process]
    /\ ide_server' = [ide_server EXCEPT !.process = None]
    /\ UNCHANGED <<workspace_root, config, document_contents, document_errors,
                   last_build_errors, active_rebuild_token, guard, clock, calls,
                   published, open_progress, log_messages>>
    /\ UNCHANGED outsideSession

\* restart_server, server.rs:90-95: kill the process taken, if any, then
\* call initialize_server.
RestartKill(t) ==
    /\ task[t].pc = "rs_kill"
    /\ IF task[t].prev # None
       THEN processes' = kill(processes, task[t].prev.val)
       ELSE UNCHANGED processes
    /\ task' = [task EXCEPT ![t].pc = "is_config", ![t].prev = None]
    /\ UNCHANGED <<workspace_root, config, ide_server, document_contents,
                   document_errors, last_build_errors, active_rebuild_token,
                   guard, clock, calls, published, open_progress, log_messages>>
    /\ UNCHANGED outsideServer

\* The log of a failed initialize_server (server.rs:319-326, 349-356).
LogInitFailure == \E m \in {"Failed to initialize server",
                            "Failed to restart server after configuration change"} :
                     LogMessage(m)

\* initialize_server, server.rs:33-44: the configuration is read from the
\* client and ragu; `?` returns the Err.
InitConfig(t) ==
    /\ task[t].pc = "is_config"
    /\ \/ /\ \E c \in Configs : task' = [task EXCEPT ![t].pc = "is_spawn",
                                                     ![t].content = Some(c)]
          /\ UNCHANGED log_messages
       \/ /\ SetPc(t, "done")
          /\ LogInitFailure
    /\ UNCHANGED <<workspace_root, config, ide_server, document_contents,
                   document_errors, last_build_errors, active_rebuild_token,
                   guard, clock, calls, published, open_progress>>
    /\ UNCHANGED outsideSession

\* start_ide_server_async, process.rs:72-80: validate purs, find a port and
\* spawn the subprocess.
StartIdeServer(t) ==
    /\ task[t].pc = "is_spawn"
    /\ \/ /\ processes' = Append(processes, "running")
          /\ task' = [task EXCEPT ![t].pc = "is_ready", ![t].cur = Some(Len(processes'))]
          /\ UNCHANGED log_messages
       \/ /\ SetPc(t, "done")
          /\ LogInitFailure
          /\ UNCHANGED processes
    /\ UNCHANGED <<workspace_root, config, ide_server, document_contents,
                   document_errors, last_build_errors, active_rebuild_token,
                   guard, clock, calls, published, open_progress>>
    /\ UNCHANGED outsideServer

\* start_ide_server_async, process.rs:118-168: the subprocess answers on its
\* port (Ok), or has exited (Err), or does not answer within 50 attempts
\* (Err: the Child is dropped, which does not end the subprocess).
AwaitServerReady(t) ==
    /\ task[t].pc = "is_ready"
    /\ \/ /\ SetPc(t, "is_store")
          /\ UNCHANGED <<processes, log_messages>>
       \/ /\ processes' = kill(processes, task[t].cur.val)
          /\ task' = [task EXCEPT ![t].pc = "done", ![t].cur = None]
          /\ LogInitFailure
       \/ /\ task' = [task EXCEPT ![t].pc = "done", ![t].cur = None]
          /\ LogInitFailure
          /\ UNCHANGED processes
    /\ UNCHANGED <<workspace_root, config, ide_server, document_contents,
                   document_errors, last_build_errors, active_rebuild_token,
                   guard, clock, calls, published, open_progress>>
    /\ UNCHANGED outsideServer

\* initialize_server, server.rs:55-66: store the configuration, the port and
\* the process handle (the handle stored before, if any, is dropped), log.
StoreIdeServer(t) ==
    /\ task[t].pc = "is_store"
    /\ guard = 0
    /\ config' = task[t].content
    /\ ide_server' = [port |-> Some(PortOf(task[t].cur.val)), process |-> task[t].cur]
    /\ LogMessage("Purescript IDE port")
    /\ task' = [task EXCEPT ![t].pc = "done", ![t].cur = None]
    /\ UNCHANGED <<workspace_root, document_contents, document_errors,
                   last_build_errors, active_rebuild_token, guard, clock, calls,
                   published, open_progress>>
    /\ UNCHANGED outsideSession

\* The requests and notifications that start or stop the analysis server.
ServerHandlers ==
    {Task("did_change_configuration", "cc_read", None, None),
     Task("shutdown", "take", None, None)}

ServerNext ==
    \/ initialize
    \/ \E t \in Tasks, h \in ServerHandlers : Receive(t, h)
    \/ \E t \in Tasks : ReadInitialized(t)
    \/ \E t \in Tasks : FetchClientConfig(t)
    \/ \E t \in Tasks : RestartReadRoot(t)
    \/ \E t \in Tasks : RestartTake(t)
    \/ \E t \in Tasks : RestartKill(t)
    \/ \E t \in Tasks : InitConfig(t)
    \/ \E t \in Tasks : StartIdeServer(t)
    \/ \E t \in Tasks : AwaitServerReady(t)
    \/ \E t \in Tasks : StoreIdeServer(t)
    \/ \E t \in Tasks : shutdown(t)

SpecServer == Init /\ [][ServerNext]_vars

\* The subprocesses that run.
Alive == {id \in DOMAIN processes : processes[id] = "running"}

\* The subprocesses whose handle the state holds, or a task that is starting
\* or stopping one.
Held ==
    (IF ide_server.process # None THEN {ide_server.process.val} ELSE {})
    \cup {task[t].cur.val : t \in {u \in Tasks : task[u].pc \in {"is_ready", "is_store"}}}
    \cup {task[t].prev.val : t \in {u \in Tasks : task[u].pc = "rs_kill"
                                                  /\ task[u].prev # None}}

\* C12: at every moment at most one analysis-server subprocess started by
\* the session is alive, and none runs without its handle being held.
C12_AtMostOneServerAlive ==
    /\ Cardinality(Alive) <= 1
    /\ Alive \subseteq Held

(***************************************************************************)
(* Builds in succession: one build task at a time, and a result that is    *)
(* processed a second time.                                                *)
(***************************************************************************)
\* The JSON line of a build whose one error has no "filename" member, as
\* serde decodes it (build.rs:212, ide_server/mod.rs:44-45).
OutputNameless ==
    <<[kind |-> "json",
       errors |-> Some(from_value(<<JsonError(Some("UnknownName"), None,
                                              Some(ErrorPosition(3, 1, 3, 8)))>>).val),
       warnings |-> None]>>

\* The results of the builds run in succession.
SuccessiveOutcomes ==
    BuildOutcomes \cup {BuildOutcome(TRUE, OutputWarnings), BuildOutcome(FALSE, OutputNameless)}

\* The file names the results report.
ReportedFiles == BuildFiles \cup {default_string}

\* The build handlers.
BuildHandlers == {h \in Handlers : h.kind = "build"}

\* The result the build task has just processed is processed once more
\* (commands/build.rs:156-233 again, with the same build_result); the task
\* keeps what the first processing left, for comparison.
RepeatBuildResult(t) ==
    /\ task[t].kind = "build"
    /\ task[t].pc = "done"
    /\ task[t].result.kind = "Ok"
    /\ task[t].prev = None
    /\ task' = [task EXCEPT ![t].pc = "retract",
                            ![t].prev = Some(<<last_build_errors, published>>)]
    /\ UNCHANGED <<workspace_root, config, ide_server, document_contents,
                   document_errors, last_build_errors, active_rebuild_token, guard,
                   clock, calls, published, open_progress, log_messages>>
    /\ UNCHANGED outsideSession

SuccessiveNext ==
    \/ \E h \in BuildHandlers : Receive(1, h)
    \/ ReadWorkspaceRoot(1)
    \/ CreateBuildToken(1)
    \/ SendBuildBegin(1)
    \/ \E r \in SuccessiveOutcomes : BuildResultArrives(1, r)
    \/ RepeatBuildResult(1)
    \/ LockForRetraction(1)
    \/ \E uri \in BuildUris : RetractOne(1, uri)
    \/ ClearLastBuildErrors(1)
    \/ \E f \in ReportedFiles : StoreBuildErrors(1, f)
    \/ PublishBuildErrors(1)
    \/ \E f \in ReportedFiles : StoreBuildWarnings(1, f)
    \/ PublishBuildWarnings(1)
    \/ SendBuildEnd(1)

SpecSuccessive == InitializedSession /\ [][SuccessiveNext]_vars

\* The URI the publisher derives from the sentinel file name.
SentinelUri == file_path_to_uri(default_string, WorkspaceRoot).val

\* C30: a diagnostic decoded without a filename gets the sentinel file name
\* "unknown", and the build publisher does not use the sentinel as a path:
\* nothing is stored in last_build_errors or published under the URI derived
\* from it.
C30_SentinelIsNotUsedAsPath ==
    /\ \A object \in JsonErrors :
          (object.filename = None /\ deserialize_error(object).kind = "Ok")
             => deserialize_error(object).val.filename = default_string
    /\ SentinelUri \notin DOMAIN last_build_errors
    /\ SentinelUri \notin DOMAIN published

\* C34: after a build result is processed, the last diagnostic set published
\* for each file is the conversion of what last_build_errors holds for the
\* file; for a file with errors and warnings it holds both.
C34_PublishedEqualsLastBuildErrors ==
    \A t \in Tasks :
       (task[t].kind = "build" /\ task[t].pc = "done" /\ task[t].result.kind = "Ok")
       => \A uri \in DOMAIN last_build_errors :
             /\ uri \in DOMAIN published
             /\ published[uri] = convert_rebuild_errors(last_build_errors[uri])

ErrorsOf(uri) == IF uri \in DOMAIN document_errors THEN document_errors[uri] ELSE << >>

\* C16: a successful full build replaces the diagnostics that code_action
\* reads: when a build task has finished processing an Ok result, for every
\* open file the build could name, what code_action would clone for it is
\* what the build reported for it (empty when it reported nothing).
C16_BuildReplacesCodeActionDiagnostics ==
    [][\A t \in Tasks :
          (/\ task[t].kind = "build"
           /\ task[t].pc = "end"
           /\ task[t].result.kind = "Ok"
           /\ task'[t].pc = "done")
          => \A f \in BuildFiles :
                UriOf(f) \in DOMAIN document_contents
                => ErrorsOf(UriOf(f)) = StoredByBuild(task[t].result.val, f)]_vars

(***************************************************************************)
(* Code actions (code_actions.rs) and the answer of code_action            *)
(* (server.rs:572-597).                                                    *)
(***************************************************************************)
\* The most errors a document carries here.
MaxErrors == 3

\* ErrorSuggestion: `annotation` is replacement.contains("::") &&
\* replacement.trim().starts_with("main"); `trailing` is the whitespace the
\* replacement ends with.
ErrorSuggestion(text, trailing, annotation, replace_range) ==
    [replacement |-> [text |-> text, trailing |-> trailing, annotation |-> annotation],
     replace_range |-> replace_range]

\* A RebuildError with the fields code actions read.
PositionedError(code, position, suggestion) ==
    [error_code |-> code, position |-> position, suggestion |-> suggestion]

RemoveImport == ErrorSuggestion("", "\n", FALSE, None)
FixableErrors ==
    {PositionedError("UnusedImport", ErrorPosition(10, 1, 10, 5), Some(RemoveImport)),
     PositionedError("UnusedImport", ErrorPosition(10, 3, 10, 8), Some(RemoveImport)),
     PositionedError("ImplicitImport", ErrorPosition(20, 1, 20, 2),
                     Some(ErrorSuggestion("import Prelude (map)", " ", FALSE, None))),
     PositionedError("UnusedExplicitImport", ErrorPosition(10, 4, 11, 3),
                     Some(ErrorSuggestion("import Data.Maybe (Maybe)", "", FALSE,
                                          Some(ErrorPosition(10, 1, 11, 9))))),
     PositionedError("UnusedImport", ErrorPosition(11, 5, 12, 1), Some(RemoveImport)),
     PositionedError("MissingTypeDeclaration", ErrorPosition(1, 1, 1, 4),
                     Some(ErrorSuggestion("main :: Effect Unit", "\n", TRUE, None))),
     PositionedError("DeprecatedQualifiedSyntax", ErrorPosition(0, 0, 0, 0),
                     Some(ErrorSuggestion("import M as M", "", FALSE, None))),
     PositionedError("RedundantUnqualifiedImport", ErrorPosition(21, 1, 21, 9),
                     Some(ErrorSuggestion("", "\n", FALSE,
                                          Some(ErrorPosition(20, 1, 21, 9)))))}
UnfixableErrors ==
    {PositionedError("UnknownName", ErrorPosition(10, 1, 10, 5), None),
     PositionedError("TypesDoNotUnify", ErrorPosition(20, 1, 20, 2), None)}

\* The ranges the editor asks code actions for.
RequestRanges ==
    {LspRange(Position(9, 10), Position(9, 12)),
     LspRange(Position(0, 0), Position(10, 0)),
     LspRange(Position(19, 0), Position(19, 1)),
     LspRange(Position(25, 0), Position(25, 0))}

RECURSIVE SeqsUpTo(_, _)
\* The sequences over S of length n at most.
SeqsUpTo(S, n) ==
    IF n = 0 THEN {<< >>}
    ELSE LET shorter == SeqsUpTo(S, n - 1) IN
         shorter \cup {Append(q, x) : q \in shorter, x \in S}

\* CodeActionParams for a document and the errors held for it.
CodeActionRequests ==
    {[params |-> Some([uri |-> MainUri, range |-> r]), errors |-> e, actions |-> None,
      apply_all |-> None, response |-> None] :
        r \in RequestRanges, e \in SeqsUpTo(FixableErrors \cup UnfixableErrors, MaxErrors)}

\* Two ranges overlap by their lines and columns.
C19_ColumnOverlap(range1, range2) ==
    /\ \/ range1.start.line < range2.end.line
       \/ range1.start.line = range2.end.line /\ range1.start.character <= range2.end.character
    /\ \/ range2.start.line < range1.end.line
       \/ range2.start.line = range1.end.line /\ range2.start.character <= range1.end.character

\* code_actions.rs:8-10
ranges_overlap(range1, range2) ==
    range1.start.line <= range2.end.line /\ range2.start.line <= range1.end.line

\* code_actions.rs:13-24
get_code_action_title(error_code) ==
    CASE error_code \in {"UnusedImport", "RedundantEmptyHidingImport", "DuplicateImport",
                         "RedundantUnqualifiedImport"} -> "Remove import"
      [] error_code = "DeprecatedQualifiedSyntax" -> "Remove qualified keyword"
      [] error_code = "ImplicitImport" -> "Make import explicit"
      [] error_code = "UnusedExplicitImport" -> "Remove unused references"
      [] OTHER -> "Apply suggestion"

\* Every error counts as fixable.
C18_AlwaysFixable(error) == TRUE

\* code_actions.rs:27-30
has_fixable_suggestion(error) == error.suggestion # None

TextEdit(range, text, trailing) ==
    [range |-> range, new_text |-> [text |-> text, trailing |-> trailing]]
CodeAction(title, is_preferred, uri, text_edits) ==
    [title |-> title, kind |-> "quickfix", is_preferred |-> is_preferred,
     edit |-> [uri |-> uri, edits |-> text_edits]]

\* code_actions.rs:49-63 (and 220-242): the suggestion's replace_range when it
\* has one, the error's range otherwise.
replacement_range(error) ==
    IF error.suggestion.val.replace_range # None
    THEN error_range(error.suggestion.val.replace_range.val)
    ELSE error_range(error.position)

\* code_actions.rs:33-116
error_to_code_action(error, uri) ==
    IF error.suggestion = None THEN None
    ELSE LET suggestion == error.suggestion.val
             line_start == Position(error_range(error.position).start.line, 0)
             text_edit ==
                 IF suggestion.replacement.annotation
                 THEN TextEdit(LspRange(line_start, line_start),
                               suggestion.replacement.text, "\n")
                 ELSE TextEdit(replacement_range(error), suggestion.replacement.text, "")
         IN Some(CodeAction(get_code_action_title(error.error_code), TRUE, uri,
                            <<text_edit>>))

RECURSIVE filter_map(_, _)
\* Iterator::filter_map of error_to_code_action over the errors, in order.
filter_map(errors, uri) ==
    IF Len(errors) = 0 THEN << >>
    ELSE LET action == error_to_code_action(Head(errors), uri) IN
         (IF action = None THEN << >> ELSE <<action.val>>)
             \o filter_map(Tail(errors), uri)

\* code_actions.rs:119-150
generate_code_actions(params, errors) ==
    LET fixable_errors == SelectSeq(errors, has_fixable_suggestion)
        overlaps(error) == ranges_overlap(error_range(error.position), params.range)
        overlapping_errors == SelectSeq(fixable_errors, overlaps)
    IN filter_map(overlapping_errors, params.uri)

\* The earlier end position first.
C17_AscendingEnd(a, b) ==
    \/ a.position.end_line < b.position.end_line
    \/ /\ a.position.end_line = b.position.end_line
       /\ a.position.end_column < b.position.end_column

\* The comparator of code_actions.rs:168-173: a sorts before b when its end
\* position is the later one.
sorts_before(a, b) ==
    \/ a.position.end_line > b.position.end_line
    \/ /\ a.position.end_line = b.position.end_line
       /\ a.position.end_column > b.position.end_column

RECURSIVE sort_by(_)
\* slice::sort_by (stable) with that comparator, code_actions.rs:167-173.
sort_by(s) ==
    IF Len(s) = 0 THEN << >>
    ELSE LET sorted == sort_by(SubSeq(s, 1, Len(s) - 1))
             e == s[Len(s)]
             p == Cardinality({i \in 1..Len(sorted) : ~sorts_before(e, sorted[i])})
         IN SubSeq(sorted, 1, p) \o <<e>> \o SubSeq(sorted, p + 1, Len(sorted))

\* Every sorted error is kept.
C20_KeepAll(sorted_errors, kept) == kept \o sorted_errors

RECURSIVE non_overlapping_errors(_, _)
\* The loop of code_actions.rs:176-209 over the sorted errors left, with the
\* errors kept so far.
non_overlapping_errors(sorted_errors, kept) ==
    IF Len(sorted_errors) = 0 THEN kept
    ELSE LET error == Head(sorted_errors)
             has_overlap ==
                 \E i \in 1..Len(kept) :
                    ranges_overlap(error_range(error.position),
                                   error_range(kept[i].position))
         IN non_overlapping_errors(Tail(sorted_errors),
                                   IF has_overlap THEN kept ELSE Append(kept, error))

\* code_actions.rs:157-209: the errors the batch keeps, None when at most one
\* error is fixable.
kept_errors(errors) ==
    LET fixable_errors == SelectSeq(errors, has_fixable_suggestion) IN
    IF Len(fixable_errors) <= 1 THEN None
    ELSE Some(non_overlapping_errors(sort_by(fixable_errors), << >>))

\* code_actions.rs:153-274
create_apply_all_action(params, errors) ==
    LET kept == kept_errors(errors) IN
    IF kept = None THEN None
    ELSE IF Len(kept.val) = 0 THEN None
    ELSE LET suggested(error) == error.suggestion # None
             with_suggestion == SelectSeq(kept.val, suggested)
             text_edits ==
                 [i \in 1..Len(with_suggestion) |->
                     TextEdit(replacement_range(with_suggestion[i]),
                              with_suggestion[i].suggestion.val.replacement.text, "")]
         IN IF Len(text_edits) = 0 THEN None
            ELSE Some(CodeAction(<<"Apply all fixes", Len(kept.val)>>, FALSE,
                                 params.uri, text_edits))

\* server.rs:576: the actions for the requested range.
GenerateCodeActions ==
    /\ fix.params # None
    /\ fix.actions = None
    /\ fix' = [fix EXCEPT !.actions = Some(generate_code_actions(fix.params.val, fix.errors))]
    /\ UNCHANGED outsideFix

\* server.rs:585: the batch action.
CreateApplyAllAction ==
    /\ fix.params # None
    /\ fix.apply_all = None
    /\ fix' = [fix EXCEPT !.apply_all = Some(create_apply_all_action(fix.params.val, fix.errors))]
    /\ UNCHANGED outsideFix

\* server.rs:572-597: what code_action answers from the cloned errors.
AnswerCodeAction ==
    /\ fix.params # None
    /\ fix.response = None
    /\ LET errors == fix.errors
           code_actions == generate_code_actions(fix.params.val, errors)
           total_fixable_errors == Len(SelectSeq(errors, has_fixable_suggestion))
           apply_all_action == create_apply_all_action(fix.params.val, errors)
       IN fix' = [fix EXCEPT !.response =
                     Some(IF Len(errors) = 0 THEN << >>
                          ELSE IF total_fixable_errors > 1 /\ apply_all_action # None
                          THEN Append(code_actions, apply_all_action.val)
                          ELSE code_actions)]
    /\ UNCHANGED outsideFix

FixInit ==
    InitializedState /\ fix \in CodeActionRequests /\ call = NoCall /\ wire = NoConnection

FixNext == GenerateCodeActions \/ CreateApplyAllAction \/ AnswerCodeAction

SpecFix == FixInit /\ [][FixNext]_vars

\* The errors of the request that carry a suggestion, by index and by value.
SuggestionIndices == {i \in 1..Len(fix.errors) : fix.errors[i].suggestion # None}
Suggested == {fix.errors[i] : i \in SuggestionIndices}

\* 0-based line of a 1-based line (0 stays 0).
ZeroBased(n) == IF n = 0 THEN 0 ELSE n - 1

\* The line-granularity test on two spans, columns ignored.
LinesIntersect(a, b) ==
    /\ ZeroBased(a.start_line) <= ZeroBased(b.end_line)
    /\ ZeroBased(b.start_line) <= ZeroBased(a.end_line)

\* The end position of a is not before that of b.
EndsNoEarlier(a, b) ==
    \/ a.position.end_line > b.position.end_line
    \/ /\ a.position.end_line = b.position.end_line
       /\ a.position.end_column >= b.position.end_column

\* The errors the batch of the request keeps, once the batch is computed
\* from more than one fixable error.
BatchComputed == fix.apply_all # None /\ kept_errors(fix.errors) # None
Kept == kept_errors(fix.errors).val
KeptSet == {Kept[i] : i \in 1..Len(Kept)}

RECURSIVE Grow(_, _)
\* The fixable errors linked to those of S by chains of at most n overlaps.
Grow(S, n) ==
    IF n = 0 THEN S
    ELSE Grow(S \cup {d \in Suggested :
                         \E e \in S : LinesIntersect(d.position, e.position)}, n - 1)
Cluster(d) == Grow({d}, MaxErrors + 1)

\* The three spans [10,1-10,5], [10,3-10,8] and [20,1-20,2].
Span10To5 == ErrorPosition(10, 1, 10, 5)
Span10To8 == ErrorPosition(10, 3, 10, 8)
Span20 == ErrorPosition(20, 1, 20, 2)
ThreeSpans ==
    /\ Cardinality(SuggestionIndices) = 3
    /\ {d.position : d \in Suggested} = {Span10To5, Span10To8, Span20}

\* The kept errors come in descending end position, and a fixable error is
\* left out exactly when it overlaps a kept error ending no earlier.
SortedGreedyKeep ==
    BatchComputed =>
       /\ \A i, j \in 1..Len(Kept) : i < j => EndsNoEarlier(Kept[i], Kept[j])
       /\ KeptSet \subseteq Suggested
       /\ \A d \in Suggested :
             d \notin KeptSet
             <=> \E k \in KeptSet : /\ k # d
                                    /\ LinesIntersect(d.position, k.position)
                                    /\ EndsNoEarlier(k, d)

\* For the three spans the batch has exactly two edits: that of the error
\* ending at 10,8 and that of the disjoint one.
ThreeSpansGiveTwoEdits ==
    (fix.apply_all # None /\ ThreeSpans) =>
       /\ fix.apply_all.val # None
       /\ LET edits == fix.apply_all.val.val.edit.edits IN
          /\ Len(edits) = 2
          /\ {edits[i].range : i \in 1..2} = {error_range(Span10To8), error_range(Span20)}

\* C17: create_apply_all_action sorts the fixable diagnostics by descending
\* end position and keeps a candidate only if it overlaps no candidate
\* already kept, so in every cluster of fixable diagnostics linked by
\* overlaps a diagnostic with the latest end position of the cluster is kept;
\* for the spans [10,1-10,5], [10,3-10,8], [20,1-20,2] the batch has exactly
\* the 2 edits of the diagnostic ending at 10,8 and of the disjoint one.
C17_LatestEndOfClusterKept ==
    /\ SortedGreedyKeep
    /\ ThreeSpansGiveTwoEdits
    /\ BatchComputed =>
          \A d \in Suggested :
             \E k \in Cluster(d) \cap KeptSet : \A e \in Cluster(d) : EndsNoEarlier(k, e)

\* The groups of mutually overlapping fixable diagnostics: two or more that
\* overlap each other, with every diagnostic that overlaps them all.
OverlapGroups ==
    {G \in SUBSET Suggested :
        /\ Cardinality(G) >= 2
        /\ \A d, e \in G : LinesIntersect(d.position, e.position)
        /\ \A d \in Suggested \ G :
              \E e \in G : ~LinesIntersect(d.position, e.position)}

\* C17 as stated: the same, with "in every group of mutually overlapping
\* fixable diagnostics the one with the latest end position is kept".
C17_LatestEndOfGroupKept ==
    /\ SortedGreedyKeep
    /\ ThreeSpansGiveTwoEdits
    /\ BatchComputed =>
          \A G \in OverlapGroups :
             \E k \in G \cap KeptSet : \A e \in G : EndsNoEarlier(k, e)

\* C17 witness: the batch has been computed for the three spans, given in
\* ascending order, and has two edits.
C17_Witness ==
    /\ fix.apply_all # None
    /\ Len(fix.errors) = 3
    /\ \A i \in 1..3 : fix.errors[i].suggestion # None
    /\ <<fix.errors[1].position, fix.errors[2].position, fix.errors[3].position>>
           = <<Span10To5, Span10To8, Span20>>
    /\ fix.apply_all.val # None
    /\ Len(fix.apply_all.val.val.edit.edits) = 2

\* The request's range takes in the first line of the span.
CoversLine(range, position) ==
    /\ range.start.line <= ZeroBased(position.start_line)
    /\ ZeroBased(position.start_line) <= range.end.line

\* C18: when exactly one diagnostic of the document carries a suggestion,
\* create_apply_all_action returns None, and generate_code_actions for a
\* range covering that diagnostic's line returns exactly one action.
C18_SingleFixableHasNoBatch ==
    Cardinality(SuggestionIndices) = 1 =>
       /\ fix.apply_all # None => fix.apply_all.val = None
       /\ (/\ fix.actions # None
           /\ \A d \in Suggested : CoversLine(fix.params.val.range, d.position))
          => Len(fix.actions.val) = 1

\* C18 witness: one diagnostic with a suggestion among three, on a line of
\* the requested range; both results are computed.
C18_Witness ==
    /\ Cardinality(SuggestionIndices) = 1
    /\ Len(fix.errors) = 3
    /\ fix.apply_all = Some(None)
    /\ fix.actions # None
    /\ \A d \in Suggested : CoversLine(fix.params.val.range, d.position)
    /\ Len(fix.actions.val) = 1

\* The indices of the diagnostics that carry a suggestion and whose 0-based
\* lines intersect those of the requested range.
ActionIndices ==
    {i \in SuggestionIndices :
        /\ ZeroBased(fix.errors[i].position.start_line) <= fix.params.val.range.end.line
        /\ fix.params.val.range.start.line <= ZeroBased(fix.errors[i].position.end_line)}

\* C19: generate_code_actions returns exactly one action for each
\* diagnostic that carries a suggestion and whose 0-based line interval
\* intersects that of the requested range (columns ignored), in the order of
\* the diagnostic set, and none for any other diagnostic.
C19_OneActionPerOverlappingFixable ==
    fix.actions # None =>
       /\ Len(fix.actions.val) = Cardinality(ActionIndices)
       /\ \A i \in ActionIndices :
             fix.actions.val[Cardinality({j \in ActionIndices : j <= i})]
                 = error_to_code_action(fix.errors[i], fix.params.val.uri).val

\* C19 witness: of three diagnostics the first and the last get an action,
\* the range sharing line 9 with them and no column; the one without a
\* suggestion gets none.
C19_Witness ==
    /\ fix.actions # None
    /\ fix.params.val.range = LspRange(Position(9, 10), Position(9, 12))
    /\ Len(fix.errors) = 3
    /\ ActionIndices = {1, 3}
    /\ fix.errors[2].position = Span10To5
    /\ Len(fix.actions.val) = 2
    /\ fix.actions.val[1] # fix.actions.val[2]

\* C20: the batch is a maximal non-overlapping subset: the diagnostics kept
\* by create_apply_all_action are fixable and pairwise non-overlapping under
\* the line test, and every fixable diagnostic left out overlaps a kept one.
C20_BatchIsMaximalNonOverlapping ==
    BatchComputed =>
       /\ KeptSet \subseteq Suggested
       /\ \A i, j \in 1..Len(Kept) :
             i # j => ~LinesIntersect(Kept[i].position, Kept[j].position)
       /\ \A i \in SuggestionIndices :
             \E k \in 1..Len(Kept) : LinesIntersect(fix.errors[i].position, Kept[k].position)
       /\ fix.apply_all.val # None
       /\ Len(fix.apply_all.val.val.edit.edits) = Len(Kept)

\* C20 witness: of three fixable diagnostics one is left out, overlapping a
\* kept one, and two are kept.
C20_Witness ==
    /\ BatchComputed
    /\ Cardinality(SuggestionIndices) = 3
    /\ Cardinality(Suggested) = 3
    /\ Len(Kept) = 2
    /\ \E d \in Suggested \ KeptSet :
          \E k \in KeptSet : LinesIntersect(d.position, k.position)

\* Position a comes before position b in the document.
Before(a, b) == a.line < b.line \/ (a.line = b.line /\ a.character < b.character)

\* Two edit ranges intersect: each starts before the other ends.
EditsIntersect(range1, range2) ==
    Before(range1.start, range2.end) /\ Before(range2.start, range1.end)

\* The edits of the batch action, when there is one.
BatchEdits == fix.apply_all.val.val.edit.edits

\* C32: the text edits of the batch fix are pairwise non-overlapping as
\* edits: the replacement ranges of any two of them do not intersect, also
\* when a suggestion's replace_range differs from its diagnostic's span.
C32_BatchEditsDoNotIntersect ==
    (fix.apply_all # None /\ fix.apply_all.val # None) =>
       \A i, j \in 1..Len(BatchEdits) :
          i # j => ~EditsIntersect(BatchEdits[i].range, BatchEdits[j].range)

\* C33: an action returned by create_apply_all_action applies at least two
\* edits; when the fixable diagnostics all overlap one another there is no
\* batch action.
C33_BatchAppliesAtLeastTwoEdits ==
    fix.apply_all # None =>
       /\ fix.apply_all.val # None => Len(BatchEdits) >= 2
       /\ (/\ Suggested # {}
           /\ \A d, e \in Suggested : LinesIntersect(d.position, e.position))
          => fix.apply_all.val = None

\* The edit C21 describes for a diagnostic with a suggestion: an insertion at
\* column 0 of the diagnostic's start line for a type-annotation suggestion,
\* the replacement of the target span for any other.
ExpectedEdit(d) ==
    LET line_start == Position(ZeroBased(d.position.start_line), 0)
        target == IF d.suggestion.val.replace_range # None
                  THEN d.suggestion.val.replace_range.val ELSE d.position
    IN IF d.suggestion.val.replacement.annotation
       THEN [range |-> LspRange(line_start, line_start),
             new_text |-> [text |-> d.suggestion.val.replacement.text, trailing |-> "\n"]]
       ELSE [range |-> LspRange(Position(ZeroBased(target.start_line),
                                         ZeroBased(target.start_column)),
                                Position(ZeroBased(target.end_line),
                                         ZeroBased(target.end_column))),
             new_text |-> [text |-> d.suggestion.val.replacement.text, trailing |-> ""]]

\* The edits of the single actions are those C21 describes.
SingleEditsAsDescribed ==
    fix.actions # None =>
       \A i \in ActionIndices :
          fix.actions.val[Cardinality({j \in ActionIndices : j <= i})].edit.edits
              = <<ExpectedEdit(fix.errors[i])>>

\* C21: an edit built from a suggestion that contains '::' and starts with
\* 'main' is a zero-width insertion at column 0 of the diagnostic's start
\* line, of the trimmed replacement and a newline, whether the edit is
\* offered singly by generate_code_actions or is part of the batch of
\* create_apply_all_action; every other suggestion replaces its target span.
C21_AnnotationIsInsertedEverywhere ==
    /\ SingleEditsAsDescribed
    /\ (BatchComputed /\ fix.apply_all.val # None) =>
          LET edits == fix.apply_all.val.val.edit.edits IN
          /\ Len(edits) = Len(Kept)
          /\ \A i \in 1..Len(edits) : edits[i] = ExpectedEdit(Kept[i])

(***************************************************************************)
(* The functions that read no state, applied to bounded arguments.         *)
(***************************************************************************)
\* The largest line or column of the positions converted here.
MaxCoordinate == 2

\* errorCode strings: the codes reported as warnings, the empty string, and
\* codes that are not, a lower-case spelling among them.
ErrorCodes ==
    {"MissingTypeDeclaration", "ImplicitImport", "DeprecatedQualifiedSyntax",
     "RedundantUnqualifiedImport", "RedundantEmptyHidingImport", "DuplicateImport",
     "UnusedImport", "UnusedExplicitImport", "ShadowedName", "UnusedTypeVar",
     "Deprecated", "", "UnknownName", "TypesDoNotUnify", "unusedimport"}

Coordinates == 0..MaxCoordinate
ErrorPositions ==
    {ErrorPosition(sl, sc, el, ec) : sl \in Coordinates, sc \in Coordinates,
                                     el \in Coordinates, ec \in Coordinates}
PointPositions == {ErrorPosition(l, c, l, c) : l \in Coordinates, c \in Coordinates}

\* The errors handed to rebuild_error_to_diagnostic.
DiagnosticArgs ==
    {PositionedError(code, position, None) : code \in ErrorCodes, position \in ErrorPositions}

\* The errors handed to error_to_code_action.
CodeActionArgs ==
    {PositionedError("UnusedImport", position,
                     Some(ErrorSuggestion("main :: Effect Unit", "\n", annotation, range))) :
        position \in PointPositions,
        annotation \in BOOLEAN,
        range \in {None} \cup {Some(p) : p \in PointPositions}}

Call(fn, arg) == [fn |-> fn, arg |-> arg, ret |-> None]

\* diagnostics.rs:5-48
ApplyRebuildErrorToDiagnostic ==
    /\ call.fn = "rebuild_error_to_diagnostic"
    /\ call.ret = None
    /\ call' = [call EXCEPT !.ret = Some(rebuild_error_to_diagnostic(call.arg))]
    /\ UNCHANGED outsideCall

\* code_actions.rs:33-116
ApplyErrorToCodeAction ==
    /\ call.fn = "error_to_code_action"
    /\ call.ret = None
    /\ call' = [call EXCEPT !.ret = Some(error_to_code_action(call.arg, MainUri))]
    /\ UNCHANGED outsideCall

\* C22: the severity depends on the code alone: WARNING exactly for the
\* eleven codes of the allow-list, ERROR for every other code string, the
\* empty one included.
C22_SeverityFollowsAllowList ==
    (call.fn = "rebuild_error_to_diagnostic" /\ call.ret # None) =>
       /\ call.ret.val # None
       /\ call.ret.val.val.severity =
             IF call.arg.error_code \in
                   {"MissingTypeDeclaration", "ImplicitImport", "DeprecatedQualifiedSyntax",
                    "RedundantUnqualifiedImport", "RedundantEmptyHidingImport",
                    "DuplicateImport", "UnusedImport", "UnusedExplicitImport",
                    "ShadowedName", "UnusedTypeVar", "Deprecated"}
             THEN "WARNING" ELSE "ERROR"

\* C22 witness: the empty code has been classified, as an error.
C22_Witness ==
    /\ call.fn = "rebuild_error_to_diagnostic"
    /\ call.arg.error_code = ""
    /\ call.ret # None
    /\ call.ret.val.val.severity = "ERROR"

\* C23: a 1-based span becomes an editor range by subtracting 1 from each of
\* its four coordinates, a coordinate 0 staying 0: {1,1,1,1} gives
\* {(0,0),(0,0)}; diagnostics, code-action ranges and replace ranges are
\* converted the same way.
C23_SpanToRangeSaturates ==
    /\ (call.fn = "rebuild_error_to_diagnostic" /\ call.ret # None) =>
          LET p == call.arg.position
              r == call.ret.val.val.range
          IN /\ r.start.line = (IF p.start_line >= 1 THEN p.start_line - 1 ELSE 0)
             /\ r.start.character = (IF p.start_column >= 1 THEN p.start_column - 1 ELSE 0)
             /\ r.end.line = (IF p.end_line >= 1 THEN p.end_line - 1 ELSE 0)
             /\ r.end.character = (IF p.end_column >= 1 THEN p.end_column - 1 ELSE 0)
             /\ p = ErrorPosition(1, 1, 1, 1)
                => r = LspRange(Position(0, 0), Position(0, 0))
    /\ (call.fn = "error_to_code_action" /\ call.ret # None) =>
          /\ call.ret.val # None
          /\ call.ret.val.val.edit.edits[1].range = ExpectedEdit(call.arg).range

\* C23 witness: a span with line 0 and column 2 has been converted for a
\* diagnostic.
C23_Witness ==
    /\ call.fn = "rebuild_error_to_diagnostic"
    /\ call.arg.position = ErrorPosition(0, 2, 1, 0)
    /\ call.ret # None
    /\ call.ret.val.val.range = LspRange(Position(0, 1), Position(0, 0))

\* Unsigned integers as the subprocess writes them, with their values; the
\* last is u32::MAX + 1 (its value is not needed: it does not fit u32).
SmallNumbers ==
    {[digits |-> <<"0">>, value |-> 0],
     [digits |-> <<"1">>, value |-> 1],
     [digits |-> <<"0", "7">>, value |-> 7],
     [digits |-> <<"1", "2">>, value |-> 12]}
LargeNumber == [digits |-> <<"4", "2", "9", "4", "9", "6", "7", "2", "9", "6">>, value |-> 0]
Numbers == SmallNumbers \cup {LargeNumber}

Verbs == {<<"C", "o", "m", "p", "i", "l", "i", "n", "g">>, <<"S", "k", "i", "p", "p", "i", "n", "g">>}
ModuleNames == {<<"M">>, <<"D", "a", "t", "a", ".", "M", "a", "y", "b", "e">>, <<"A", " ", "B">>}
Blanks == {<< >>, <<" ">>}

\* "[i of n] Compiling X" and "[i of n] Skipping X".
PatternText(i, n, verb, name) ==
    <<"[">> \o i.digits \o <<" ", "o", "f", " ">> \o n.digits \o <<"]", " ">> \o verb \o <<" ">> \o name

\* The lines of that form, blanks around them or not.
PatternLines ==
    {[text |-> lead \o PatternText(i, n, verb, name) \o trail, i |-> i, n |-> n, name |-> name] :
        lead \in Blanks, trail \in Blanks, i \in Numbers, n \in Numbers,
        verb \in Verbs, name \in ModuleNames}

\* Lines that hold the pattern after other text.
EmbeddedLines ==
    {<<"w", "a", "r", "n", "i", "n", "g", ":", " ">> \o PatternText(i, n, verb, <<"M">>) :
        i \in SmallNumbers, n \in SmallNumbers, verb \in Verbs}

\* Lines that hold no such pattern: a part is missing or is another one.
OtherTexts ==
    {<< >>, <<" ">>, <<"[">>, <<"[", "1", " ", "o", "f", "]", " ", "C", "o", "m", "p", "i", "l", "i", "n", "g", " ", "M">>, <<"[", " ", "o", "f", " ", "2", "]", " ", "C", "o", "m", "p", "i", "l", "i", "n", "g", " ", "M">>, <<"1", " ", "o", "f", " ", "2", " ", "C", "o", "m", "p", "i", "l", "i", "n", "g", " ", "M">>, <<"[", "1", " ", "o", "f", " ", "2", "]", " ", "B", "u", "i", "l", "d", "i", "n", "g", " ", "M">>, <<"[", "1", " ", "o", "f", " ", "2", "]", " ", "C", "o", "m", "p", "i", "l", "i", "n", "g">>, <<"[", "1", " ", "o", "f", " ", "2", "]", " ", "C", "o", "m", "p", "i", "l", "i", "n", "g", " ">>, <<"[", "1", " ", "o", "f", " ", "2", "]", "C", "o", "m", "p", "i", "l", "i", "n", "g", " ", "M">>, <<"[", "a", " ", "o", "f", " ", "2", "]", " ", "C", "o", "m", "p", "i", "l", "i", "n", "g", " ", "M">>, <<"[", "1", " ", "o", "f", " ", "2", " ", "C", "o", "m", "p", "i", "l", "i", "n", "g", " ", "M">>, <<"C", "o", "m", "p", "i", "l", "i", "n", "g", " ", "M">>}

ProgressArgs ==
    {TextLine(l.text) : l \in PatternLines}
    \cup {TextLine(t) : t \in EmbeddedLines \cup OtherTexts}
    \cup {JsonLine, InvalidLine}

\* build.rs:245-261
ApplyParseSingleProgressLine ==
    /\ call.fn = "parse_single_progress_line"
    /\ call.ret = None
    /\ call' = [call EXCEPT !.ret = Some(parse_single_progress_line(call.arg))]
    /\ UNCHANGED outsideCall

\* The lines of the form whose numbers both fit 32 bits.
FittingLines == {l \in PatternLines : l.i # LargeNumber /\ l.n # LargeNumber}

\* A line of the form with fitting numbers gives (i, n, X); a line that does
\* not hold the pattern gives None.
ParsesFittingLines ==
    (call.fn = "parse_single_progress_line" /\ call.ret # None /\ call.arg.kind = "text") =>
       /\ \A l \in FittingLines :
             call.arg.text = l.text
             => call.ret.val = Some([current |-> l.i.value, total |-> l.n.value,
                                     module_name |-> l.name])
       /\ call.arg.text \in OtherTexts => call.ret.val = None

MaxCount == 4

ParsedProgress ==
    {[current |-> c, total |-> t, module_name |-> <<"M">>] : c \in 0..MaxCount, t \in 0..MaxCount}

\* build.rs:116-125 and commands/build.rs:93-106: the event for a parsed
\* progress line, and the Report the editor gets for it.
ApplyProgressReport ==
    /\ call.fn = "progress_report"
    /\ call.ret = None
    /\ call' = [call EXCEPT !.ret = Some(progress_report(progress_event(call.arg)))]
    /\ UNCHANGED outsideCall

\* C25: the percentage of a progress event is floor(current * 100 / total)
\* when total > 0; when total = 0 the event carries no percentage and no
\* numeric percentage is reported to the editor.
C25_NoPercentageWithoutTotal ==
    (call.fn = "progress_report" /\ call.ret # None) =>
       IF call.arg.total > 0
       THEN \E q \in 0..(100 * MaxCount) :
               /\ call.ret.val.percentage = Some(q)
               /\ q * call.arg.total <= call.arg.current * 100
               /\ call.arg.current * 100 < (q + 1) * call.arg.total
       ELSE call.ret.val.percentage = None

\* The most lines of an output parsed here.
MaxOutput == 3

ErrorsLine == [kind |-> "json", errors |-> Some(<<ErrMain, ErrDep, ErrMain>>), warnings |-> None]
WarningsLine == [kind |-> "json", errors |-> None, warnings |-> Some(<<WarnMain>>)]
\* A line that starts as the compiler's JSON and is cut short.
MalformedLine == TextLine(<<"{", "\"", "e", "r", "r", "o", "r", "s", "\"", ":", "[", "{", "\"", "e", "r", "r">>)

\* The outputs handed to parse_build_output.
OutputArgs ==
    SeqsUpTo({JsonLine, ErrorsLine, WarningsLine, MalformedLine, ProgressLine}, MaxOutput)

\* build.rs:194-241
ApplyParseBuildOutput ==
    /\ call.fn = "parse_build_output"
    /\ call.ret = None
    /\ call' = [call EXCEPT !.ret = Some(Ok(parse_build_output(call.arg)))]
    /\ UNCHANGED outsideCall

RECURSIVE Reported(_, _)
\* The diagnostics the decodable lines carry under a key, in encounter order.
Reported(ls, key) ==
    IF Len(ls) = 0 THEN << >>
    ELSE (IF Head(ls).kind = "json" /\ Head(ls)[key] # None THEN Head(ls)[key].val ELSE << >>)
         \o Reported(Tail(ls), key)

\* The map holds, for each file reported, its diagnostics in encounter order,
\* and no other key.
GroupedByFile(map, reported) ==
    /\ DOMAIN map = {reported[i].filename : i \in 1..Len(reported)}
    /\ \A f \in DOMAIN map :
          LET of_file(e) == e.filename = f IN map[f] = SelectSeq(reported, of_file)

\* C26: parse_build_output skips a line that passes the cheap check and
\* does not decode, and lines of unrelated text: it returns Ok with the
\* errors and the warnings of every other matching line, grouped by file
\* path in encounter order, a file with both being in both maps.
C26_MalformedLinesAreSkipped ==
    (call.fn = "parse_build_output" /\ call.ret # None) =>
       /\ call.ret.val.kind = "Ok"
       /\ GroupedByFile(call.ret.val.val.errors, Reported(call.arg, "errors"))
       /\ GroupedByFile(call.ret.val.val.warnings, Reported(call.arg, "warnings"))

\* C26 witness: a cut-short JSON line between a line of errors and a line
\* of warnings for src/Main.purs, which ends in both maps.
C26_Witness ==
    /\ call.fn = "parse_build_output"
    /\ call.arg = <<ErrorsLine, MalformedLine, WarningsLine>>
    /\ cheap_check(MalformedLine.text)
    /\ call.ret # None
    /\ call.ret.val.val.errors[MainPurs] = <<ErrMain, ErrMain>>
    /\ call.ret.val.val.warnings[MainPurs] = <<WarnMain>>
    /\ DOMAIN call.ret.val.val.errors = {MainPurs, DepPurs}

\* The steps of send_command that can fail: connect, write_all, read_to_end,
\* String::from_utf8, serde_json::from_str.
Failures ==
    {"connection refused", "broken pipe", "connection reset",
     "invalid utf-8 sequence", "expected value"}

\* The exchanges rebuild_file is applied to.
RebuildArgs ==
    {Exchange(Some(f), None) : f \in Failures}
    \cup {Exchange(None, None), Exchange(None, Some(JsonText))}
    \cup {Exchange(None, Some(JsonArray(items))) : items \in SeqsUpTo(JsonErrors, 2)}

\* ide_server/commands.rs:41-72
ApplyRebuildFile ==
    /\ call.fn = "rebuild_file"
    /\ call.ret = None
    /\ call' = [call EXCEPT !.ret = Some(rebuild_file(send_command(call.arg)))]
    /\ UNCHANGED outsideCall

\* Every item of the array is a diagnostic: it has its required members.
Decodable(items) ==
    \A i \in 1..Len(items) : items[i].error_code # None /\ items[i].position # None

\* The decoded diagnostics are those of the array, item by item.
ExactlyThose(errors, items) ==
    /\ Len(errors) = Len(items)
    /\ \A i \in 1..Len(items) :
          /\ errors[i].error_code = items[i].error_code.val
          /\ errors[i].position = items[i].position.val
          /\ items[i].filename # None => errors[i].filename = items[i].filename.val

\* C29: the fast-rebuild client tells success from failure: an absent or
\* empty diagnostic list gives a successful outcome without diagnostics, a
\* non-empty list a successful outcome with exactly its diagnostics, and a
\* failure to connect, write, read or parse an error outcome.
C29_ClientDistinguishesSuccessFromFailure ==
    (call.fn = "rebuild_file" /\ call.ret # None) =>
       LET exchange == call.arg
           outcome == call.ret.val
       IN IF exchange.failure # None THEN outcome.kind = "Err"
          ELSE IF exchange.result = None \/ exchange.result.val = JsonArray(<< >>)
               THEN outcome = Ok([errors |-> None])
          ELSE IF exchange.result.val.json # "array" THEN TRUE
          ELSE IF Decodable(exchange.result.val.items)
               THEN /\ outcome.kind = "Ok"
                    /\ outcome.val.errors # None
                    /\ ExactlyThose(outcome.val.errors.val, exchange.result.val.items)
          ELSE outcome.kind = "Err"

\* C29 witness: the client has answered a list of two diagnostics with
\* exactly those two, and so a successful outcome that is not empty.
C29_Witness ==
    /\ call.fn = "rebuild_file"
    /\ call.arg = Exchange(None, Some(JsonArray(<<ToJson(ErrMain), ToJson(WarnMain)>>)))
    /\ call.ret = Some(Ok([errors |-> Some(<<ErrMain, WarnMain>>)]))

PureCalls ==
    {Call("rebuild_error_to_diagnostic", a) : a \in DiagnosticArgs}
    \cup {Call("error_to_code_action", a) : a \in CodeActionArgs}
    \cup {Call("parse_single_progress_line", a) : a \in ProgressArgs}
    \cup {Call("progress_report", a) : a \in ParsedProgress}
    \cup {Call("parse_build_output", a) : a \in OutputArgs}
    \cup {Call("rebuild_file", a) : a \in RebuildArgs}

PureInit ==
    InitializedState /\ fix = NoRequest /\ call \in PureCalls /\ wire = NoConnection

PureNext ==
    \/ ApplyRebuildErrorToDiagnostic
    \/ ApplyErrorToCodeAction
    \/ ApplyParseSingleProgressLine
    \/ ApplyProgressReport
    \/ ApplyParseBuildOutput
    \/ ApplyRebuildFile

SpecPure == PureInit /\ [][PureNext]_vars

(***************************************************************************)
(* send_command on the wire (ide_server/commands.rs:8-38).                 *)
(***************************************************************************)
\* IdeCommand (ide_server/mod.rs:9-12)
IdeCommand(command, params) == [command |-> command, params |-> params]

\* The commands rebuild_file sends (ide_server/commands.rs:42-47).
RebuildCommands == {IdeCommand("rebuild", Some([file |-> f])) : f \in {MainPurs, DepPurs}}

\* serde_json::to_string of {"command": ..., "params": ...}
\* (ide_server/commands.rs:12-17), as the members it writes.
to_string(command) == <<"{", "command", command.command, "params", command.params, "}">>

\* format!("{}\n", request_json) (ide_server/commands.rs:18)
request_bytes(command) == to_string(command) \o <<"\n">>

\* When an analysis server answers: as soon as it has read a line, or only
\* once it has read the end of the client's input.
ServerKinds == {"answers_line", "answers_end_of_input"}

\* What the server's answer decodes to: invalid UTF-8, invalid JSON, or a
\* JSON object with or without `result`.
Answers ==
    {Exchange(Some(f), None) : f \in {"invalid utf-8 sequence", "expected value"}}
    \cup {a \in RebuildArgs : a.failure = None}

\* ide_server/commands.rs:9: TcpStream::connect, which may fail.
Connect ==
    /\ wire.pc = "connect"
    /\ \/ wire' = [wire EXCEPT !.pc = "write", !.write_open = TRUE]
       \/ wire' = [wire EXCEPT !.pc = "returned", !.ret = Some(Err("connection refused"))]
    /\ UNCHANGED outsideWire

\* ide_server/commands.rs:21: write_all of the request and its newline; the
\* write side stays open.  On failure the stream is dropped.
WriteAll ==
    /\ wire.pc = "write"
    /\ \/ wire' = [wire EXCEPT !.pc = "read", !.sent = request_bytes(wire.command)]
       \/ wire' = [wire EXCEPT !.pc = "returned", !.write_open = FALSE,
                                !.ret = Some(Err("broken pipe"))]
    /\ UNCHANGED outsideWire

\* The server has the whole request line, or the end of the client's input,
\* and writes its answer and closes.
ServerAnswers ==
    /\ wire.pc \in {"read", "returned"}
    /\ ~wire.peer_closed
    /\ wire.sent # << >>
    /\ IF wire.server = "answers_line" THEN wire.sent[Len(wire.sent)] = "\n"
       ELSE ~wire.write_open
    /\ wire' = [wire EXCEPT !.peer_closed = TRUE]
    /\ UNCHANGED outsideWire

\* ide_server/commands.rs:24-37: read_to_end returns once the peer has
\* closed (or fails); the buffer is decoded and the stream dropped.
ReadToEnd ==
    /\ wire.pc = "read"
    /\ \/ /\ wire.peer_closed
          /\ wire' = [wire EXCEPT !.pc = "returned", !.write_open = FALSE,
                                   !.ret = Some(send_command(wire.answer))]
       \/ wire' = [wire EXCEPT !.pc = "returned", !.write_open = FALSE,
                                !.ret = Some(Err("connection reset"))]
    /\ UNCHANGED outsideWire

WireInit ==
    /\ InitializedState /\ fix = NoRequest /\ call = NoCall
    /\ wire \in {Connection("connect", c, k, a) :
                    c \in RebuildCommands, k \in ServerKinds, a \in Answers}

WireNext == Connect \/ WriteAll \/ ServerAnswers \/ ReadToEnd

SpecWire == WireInit /\ [][WireNext]_vars

\* C31: a fast-rebuild call follows the wire protocol in order: the request
\* is one newline-terminated JSON object, and the client never waits for the
\* response while its write side is still open.
C31_NeverAwaitsResponseWithWriteSideOpen ==
    wire.pc = "read" =>
       /\ wire.sent = request_bytes(wire.command)
       /\ ~wire.write_open

\* The diagnostics under a key of the result hold those of the lines.
HoldsReported(map, reported) ==
    \A i \in 1..Len(reported) :
       /\ reported[i].filename \in DOMAIN map
       /\ reported[i] \in Range(map[reported[i].filename])

\* C27: every line read from either stream is accumulated for structured
\* parsing: the diagnostics of a JSON line are in the BuildResult whether
\* the subprocess wrote the line to standard output or to standard error.
C27_BothStreamsAreParsed ==
    (result_chan # << >> /\ result_chan[1].kind = "Ok") =>
       \A s \in Streams :
          /\ HoldsReported(result_chan[1].val.errors, Reported(lines[s], "errors"))
          /\ HoldsReported(result_chan[1].val.warnings, Reported(lines[s], "warnings"))

\* The steps of trigger_fast_rebuild (server.rs:106-231).
RebuildSteps ==
    {"tfr_take", "tfr_end_prev", "tfr_create", "tfr_set", "tfr_begin",
     "tfr_rebuild", "tfr_clear", "tfr_end", "tfr_insert", "tfr_publish",
     "tfr_publish_empty", "tfr_remove", "tfr_log"}

\* C28: a fast rebuild never carries text that contains a foreign import:
\* the rebuild that did_open, did_change or focus triggers carries text
\* without one (for text with one the handler returns without a rebuild), and
\* the rebuild that did_save triggers carries no text at all.
C28_NoInMemoryRebuildOfForeignText ==
    \A t \in Tasks :
       task[t].pc \in RebuildSteps =>
          IF task[t].kind = "did_save" THEN task[t].content = None
          ELSE task[t].content # None /\ ~task[t].content.val.foreign

\* C28 witness: with rebuilds on change enabled and the analysis server's
\* port known, a did_change whose text holds a foreign import has returned
\* without a rebuild, and a did_save awaits its rebuild, which carries no text.
C28_Witness ==
    /\ fast_rebuild_on_change /\ ide_server.port # None
    /\ \E t, u \in Tasks :
          /\ task[t].kind = "did_change" /\ task[t].pc = "done"
          /\ task[t].content = Some(ForeignText) /\ task[t].token = None
          /\ task[u].kind = "did_save" /\ task[u].pc = "tfr_rebuild"
          /\ task[u].content = None

\* C28 as stated: no rebuild that carries text awaits the analysis server
\* while the document's stored text contains a foreign import.
C28_NoInMemoryRebuildWhileLiveTextIsForeign ==
    \A t \in Tasks :
       (task[t].pc = "tfr_rebuild" /\ task[t].content # None) =>
          \/ MapGet(document_contents, task[t].uri) = None
          \/ ~MapGet(document_contents, task[t].uri).val.foreign

\* Every handler the editor has invoked is still in its task slot, and all of
\* them are fast-rebuild handlers that have returned.
OnlyRebuildsAllCompleted ==
    /\ calls = Cardinality({t \in Tasks : task[t].kind # "idle"})
    /\ \A t \in Tasks : task[t].kind \in RebuildKinds \cup {"idle"}
    /\ \A t \in Tasks : task[t].pc \in {"idle", "done"}

\* The diagnostics last published for a document, none when nothing was.
LastPublished(uri) == IF uri \in DOMAIN published THEN published[uri] ELSE << >>

\* The diagnostics document_errors holds for a document, converted.
StoredDiagnostics(uri) ==
    IF uri \in DOMAIN document_errors
    THEN convert_rebuild_errors(document_errors[uri]) ELSE << >>

\* C35: stored and published diagnostics agree under concurrent fast
\* rebuilds: once all fast rebuilds of a file have completed, the set last
\* published for it is the conversion of document_errors[uri], or empty
\* when there is no entry.
C35_StoredAndPublishedAgree ==
    OnlyRebuildsAllCompleted =>
       \A uri \in Uris : LastPublished(uri) = StoredDiagnostics(uri)

\* C36: a fast-rebuild token for which Begin was sent gets exactly one End:
\* a rebuild that sends End for its own token finds the indicator still open;
\* and a completing rebuild clears the active-token slot only when the slot
\* holds its own token.
C36_ExactlyOneEndPerRebuildToken ==
    [][\A t \in Tasks :
          /\ SendRebuildEnd(t) => task[t].token.val \in open_progress
          /\ ClearActiveToken(t) =>
                (active_rebuild_token = task[t].token \/ UNCHANGED active_rebuild_token)]_vars

(***************************************************************************)
(* Successive edits of one document: did_change with different texts.      *)
(***************************************************************************)
\* The document after a further edit, still without a foreign import.
EditedText == [text |-> "module Main where x = 1", foreign |-> FALSE]

\* did_change (server.rs:430-464) for each of the two texts.
EditHandlers ==
    {Task("did_change", "store", u, Some(c)) : u \in Uris, c \in {PlainText, EditedText}}

EditNext ==
    \/ \E t \in Tasks, h \in EditHandlers : Receive(t, h)
    \/ \E t \in Tasks : StoreContent(t)
    \/ \E t \in Tasks : ReadSettings(t)
    \/ \E t \in Tasks : TakePreviousToken(t)
    \/ \E t \in Tasks : EndPreviousToken(t)
    \/ \E t \in Tasks : CreateRebuildToken(t)
    \/ \E t \in Tasks : StoreActiveToken(t)
    \/ \E t \in Tasks : SendRebuildBegin(t)
    \/ \E t \in Tasks : AwaitRebuild(t)
    \/ \E t \in Tasks : ClearActiveToken(t)
    \/ \E t \in Tasks : SendRebuildEnd(t)
    \/ \E t \in Tasks : StoreRebuildErrors(t)
    \/ \E t \in Tasks : PublishRebuildErrors(t)
    \/ \E t \in Tasks : RemoveRebuildErrors(t)
    \/ \E t \in Tasks : PublishRebuildEmpty(t)
    \/ \E t \in Tasks : LogRebuildFailure(t)

SpecEdits == InitializedSession /\ [][EditNext]_vars

\* The errors a completed rebuild reported, none for a clean rebuild.
ReportedErrors(t) ==
    IF task[t].result.val.errors = None THEN << >> ELSE task[t].result.val.errors.val

\* The errors document_errors holds for a document.
StoredErrors(uri) == IF uri \in DOMAIN document_errors THEN document_errors[uri] ELSE << >>

\* C39: diagnostics follow the newest text: once two overlapping rebuilds of
\* a document for different texts have completed, the stored and published
\* diagnostics are those of the rebuild issued for the text the document
\* now has.
C39_DiagnosticsFollowNewestText ==
    \A new, old \in Tasks :
       (/\ task[new].pc = "done" /\ task[old].pc = "done"
        /\ task[new].kind = "did_change" /\ task[old].kind = "did_change"
        /\ task[new].uri = task[old].uri
        /\ task[new].content # task[old].content
        /\ MapGet(document_contents, task[new].uri) = task[new].content
        /\ task[new].result # None /\ task[new].result.kind = "Ok"
        /\ task[old].result # None)
       => /\ StoredErrors(task[new].uri) = ReportedErrors(new)
          /\ LastPublished(task[new].uri) = convert_rebuild_errors(ReportedErrors(new))

\* A did_close of the document has completed and nothing has stored text
\* for the document since.
Closed(uri) ==
    /\ uri \notin DOMAIN document_contents
    /\ \E u \in Tasks :
          task[u].kind = "did_close" /\ task[u].pc = "done" /\ task[u].uri = uri

\* C40: a fast rebuild that completes after its document was closed does not
\* bring the diagnostics back: the rebuild of a did_open or did_change neither
\* stores errors for the closed document nor publishes a non-empty set.
C40_NoDiagnosticsAfterClose ==
    [][\A t \in Tasks :
          (task[t].kind \in {"did_open", "did_change"} /\ Closed(task[t].uri))
          => ~StoreRebuildErrors(t) /\ ~PublishRebuildErrors(t)]_vars

BuildNext ==
    \/ CoordStart
    \/ \E s \in Streams, l \in OutputLines : ChildWrite(s, l)
    \/ ChildExit
    \/ \E s \in Streams : ReaderStep(s)
    \/ \E s \in Streams : ReaderSend(s)
    \/ \E s \in Streams : ReaderAbort(s)
    \/ JoinStdout
    \/ JoinStderr
    \/ WaitAndSend
    \/ ProgressRecv

SpecBuild == BuildInit /\ [][BuildNext]_vars

(***************************************************************************)
(* One build with its consumers: the build task of commands/build.rs that  *)
(* awaits the result, and the task it spawns to forward progress events.   *)
(***************************************************************************)
\* The token of the build.
BuildToken == Token("build", 1)

\* What an earlier build may have left in last_build_errors.
EarlierEntries == {EmptyMap, MapInsert(EmptyMap, MainUri, <<WarnMain>>)}

\* The build task right after Begin (commands/build.rs:63-86): the streaming
\* build starts, the forwarder waits on the progress channel and the task on
\* the result channel.
ProgressInit ==
    /\ BuildIdle
    /\ workspace_root = Some(WorkspaceRoot)
    /\ config = Some([fast_rebuild_on_save |-> TRUE, fast_rebuild_on_change |-> TRUE])
    /\ ide_server = [port |-> Some(PortOf(1)), process |-> Some(1)]
    /\ processes = <<"running">>
    /\ document_contents = EmptyMap
    /\ document_errors = EmptyMap
    /\ last_build_errors \in EarlierEntries
    /\ published = [uri \in DOMAIN last_build_errors |->
                       convert_rebuild_errors(last_build_errors[uri])]
    /\ active_rebuild_token = None
    /\ guard = 0
    /\ clock = 1
    /\ calls = 1
    /\ task = [t \in Tasks |->
                 IF t = 1
                 THEN [Task("build", "result", None, Some(FALSE)) EXCEPT
                          !.token = Some(BuildToken)]
                 ELSE Idle]
    /\ open_progress = {BuildToken}
    /\ log_messages = Some("Purescript IDE port")
    /\ fix = NoRequest /\ call = NoCall /\ wire = NoConnection

\* The lines the subprocess writes in this build.
ProgressOutputLines == {ProgressLine, JsonLine, WarningsLine}

\* The coordinator task ends without reaching `result_tx.send` (it panics or
\* is cancelled): the sender is dropped and the oneshot channel closes
\* without a value.
CoordinatorDropped ==
    /\ coord \in {"join_stdout", "join_stderr", "wait"}
    /\ coord' = "dropped"
    /\ UNCHANGED <<args, child, written, pipe, reader, lines, progress_chan, result_chan>>
    /\ UNCHANGED outsideBuild

\* commands/build.rs:92-108: the forwarder takes an event from the progress
\* channel and sends the Report for the build's token to the editor.
ForwardProgress(t) ==
    /\ task[t].kind = "build"
    /\ task[t].token # None
    /\ ProgressRecv

\* commands/build.rs:111-112: `result_rx.await` yields the value sent.
ReceiveBuildResult(t) ==
    /\ result_chan # << >>
    /\ BuildResultArrives(t, result_chan[1])

\* commands/build.rs:113-121: `result_rx.await` yields Err, the channel was
\* closed without a value; the task logs and returns.
ResultChannelClosed(t) ==
    /\ task[t].pc = "result"
    /\ coord = "dropped"
    /\ result_chan = << >>
    /\ LogMessage("Build task was cancelled")
    /\ SetPc(t, "done")
    /\ UNCHANGED <<workspace_root, config, ide_server, document_contents,
                   document_errors, last_build_errors, active_rebuild_token, guard,
                   clock, calls, published, open_progress>>
    /\ UNCHANGED outsideSession

ProgressNext ==
    \/ CoordStart
    \/ \E s \in Streams, l \in ProgressOutputLines : ChildWrite(s, l)
    \/ ChildExit
    \/ \E s \in Streams : ReaderStep(s)
    \/ \E s \in Streams : ReaderSend(s)
    \/ \E s \in Streams : ReaderAbort(s)
    \/ JoinStdout
    \/ JoinStderr
    \/ WaitAndSend
    \/ CoordinatorDropped
    \/ ForwardProgress(1)
    \/ ReceiveBuildResult(1)
    \/ ResultChannelClosed(1)
    \/ LockForRetraction(1)
    \/ \E uri \in BuildUris : RetractOne(1, uri)
    \/ ClearLastBuildErrors(1)
    \/ \E f \in BuildFiles : StoreBuildErrors(1, f)
    \/ PublishBuildErrors(1)
    \/ \E f \in BuildFiles : StoreBuildWarnings(1, f)
    \/ PublishBuildWarnings(1)
    \/ SendBuildEnd(1)

SpecProgress == ProgressInit /\ [][ProgressNext]_vars

\* C37: no Report is sent for a build's token after the End for that token:
\* whenever the forwarder sends a Report, the token's End has not been sent.
C37_NoReportAfterEnd ==
    [][\A t \in Tasks : ForwardProgress(t) => task[t].token.val \in open_progress]_vars

\* C38: a build for which Begin was sent sends End for its token, whether
\* the build succeeds, its result is an Err, or the result channel is closed
\* without a value: a build task that has returned has closed its indicator.
C38_BuildAlwaysSendsEnd ==
    \A t \in Tasks :
       (task[t].kind = "build" /\ task[t].pc = "done" /\ task[t].token # None)
       => task[t].token.val \notin open_progress

(***************************************************************************)
(* Claims about the streaming build coordinator (checked under SpecBuild). *)
(***************************************************************************)
ResultSent == result_chan # << >>

\* C1: the result is sent on the one-shot channel only after the stdout
\* reader and the stderr reader have reached end-of-stream (every line
\* written has been read) and the subprocess has exited, so a BuildResult
\* never reflects a partial read.
C1_ResultOnlyAfterDrainAndExit ==
    (ResultSent /\ result_chan[1].kind = "Ok") =>
        /\ ChildExited
        /\ \A s \in Streams : reader[s] = "done" /\ pipe[s] = << >>

\* C2: every build invocation sends exactly one value on the result
\* channel: none while the coordinator runs, exactly one once it has ended,
\* whichever step ended it; the value is an Err naming the failed step when
\* spawning, capturing a stream, joining a reader or waiting for the exit
\* failed, and an Ok(BuildResult) when the coordinator ran to its end.
C2_ExactlyOneResult ==
    /\ Len(result_chan) <= 1
    /\ (coord = "done") <=> (Len(result_chan) = 1)
    /\ ResultSent =>
          LET r == result_chan[1] IN
          /\ r.kind \in {"Ok", "Err"}
          /\ r.kind = "Ok" =>
                ChildExited /\ \A s \in Streams : reader[s] = "done"
          /\ r.kind = "Err" =>
                CASE r.msg = "Failed to spawn ragu command" -> child = "unspawned"
                  [] r.msg \in {"Failed to capture stdout", "Failed to capture stderr"} ->
                        \A s \in Streams : reader[s] = "unspawned"
                  [] r.msg = "Failed to join stdout task" -> reader["stdout"] = "aborted"
                  [] r.msg = "Failed to join stderr task" ->
                        reader["stdout"] = "done" /\ reader["stderr"] = "aborted"
                  [] r.msg = "Failed to wait for child" ->
                        ChildExited /\ \A s \in Streams : reader[s] = "done"
                  [] OTHER -> FALSE

\* C2 witness: a reader task was lost, and the coordinator ended by sending
\* the join failure.
C2_Witness ==
    /\ coord = "done"
    /\ Len(result_chan) = 1
    /\ result_chan[1] = Err("Failed to join stderr task")

\* C3: a full progress channel never blocks a stream reader: a reader with
\* a progress event to send is never held up by the channel being full.
C3_FullChannelNeverBlocksReader ==
    \A s \in Streams : reader[s] = "send" => Len(progress_chan) < ProgressCapacity


=============================================================================
